---- MODULE Spec2Model ----
(***************************************************************************)
(* The tunneller relay: the gateway's HTTP handler (serveCmd.HTTPHandler,  *)
(* the MQ revision) and the agent's broker callback (clientCmd.onMessage)  *)
(* talking over one shared topic clients/<label> of a publish/subscribe    *)
(* broker.                                                                 *)
(*                                                                         *)
(* A string is a sequence of chunks.  A chunk is one byte where the code    *)
(* tests or cuts the string at that byte (the "X" and "-" of a payload,    *)
(* the "." of a Host, the " " of a result, the ":" and "," of an address,  *)
(* the braces of a JSON object), and elsewhere a run of bytes the code     *)
(* never looks into ("HTTP/1.0", "503", ...).  Prefix tests, slicing and   *)
(* splitting work on the sequence as the Go code works on the bytes.       *)
(***************************************************************************)
EXTENDS Integers, Sequences, FiniteSets, TLC

\* ---------------------------------------------------------------- strings

\* strings.HasPrefix
HasPrefix(s, prefix) ==
    /\ Len(s) >= Len(prefix)
    /\ SubSeq(s, 1, Len(prefix)) = prefix

\* strings.Contains, for a one-byte substring
Contains(s, c) == \E i \in 1..Len(s) : s[i] = c

\* s[n:]
SliceFrom(s, n) == SubSeq(s, n + 1, Len(s))

\* index of the first c in s, 0 when there is none
IndexOf(s, c) ==
    IF Contains(s, c)
    THEN CHOOSE i \in 1..Len(s) : s[i] = c /\ \A j \in 1..(i - 1) : s[j] # c
    ELSE 0

\* strings.Split, for a one-byte separator
RECURSIVE Split(_, _)
Split(s, sep) ==
    IF Contains(s, sep)
    THEN <<SubSeq(s, 1, IndexOf(s, sep) - 1)>>
            \o Split(SliceFrom(s, IndexOf(s, sep)), sep)
    ELSE <<s>>

\* strings.TrimSpace
RECURSIVE TrimSpace(_)
TrimSpace(s) ==
    IF s # <<>> /\ Head(s) = " " THEN TrimSpace(Tail(s))
    ELSE IF s # <<>> /\ s[Len(s)] = " " THEN TrimSpace(SubSeq(s, 1, Len(s) - 1))
    ELSE s

\* ---------------------------------------------------------------- the wire

\* The response marker, the two bytes "X-".
Marker == <<"X", "-">>

\* The gateway's test of a delivered payload (and the agent's); before it, a
\* variant that takes no payload for a response.
NeverResponse(payload) == FALSE
IsResponse(payload) == HasPrefix(payload, Marker)

\* tmp[2:]; before it, a variant that cuts one byte.
StripMarkerOneByte(payload) == SliceFrom(payload, 1)
StripMarker(payload) == SliceFrom(payload, Len(Marker))

\* "clients/" + host; before it, a variant with one topic for every label.
TopicShared(label) == <<"clients/">>
Topic(label) == <<"clients/">> \o label

\* The body the agent answers with when the exposed service cannot be dialled.
FallbackBody ==
    <<"HTTP/1.0", " ", "503", " ", "OK", "\n",
      "Content-type:", " ", "text/html;", " ", "charset=UTF-8", "\n",
      "Connection:", " ", "close", "\n\n",
      "<!DOCTYPE", " ", "html>", "\n<html>\n<body>\n",
      "<p>The", " ", "remote", " ", "server", " ", "was", " ", "unreachable.</p>",
      "\n</body>\n</html>">>

\* The body the gateway serves when the mailbox stayed empty; before it, a
\* variant that serves the agent's body.
TimeoutBodyWrong == FallbackBody
TimeoutBody ==
    <<"HTTP/1.0", " ", "503", " ", "OK", "\n",
      "Content-type:", " ", "text/html;", " ", "charset=UTF-8", "\n",
      "Connection:", " ", "close", "\n\n",
      "<!DOCTYPE", " ", "html>", "\n<html>\n<body>\n",
      "<p>We", " ", "didn't", " ", "receive", " ", "a", " ", "reply", " ", "from", " ",
      "the", " ", "remote", " ", "host,", " ", "despite", " ", "waiting", " ", "10", " ",
      "seconds.</p>", "\n</body>\n</html>\n">>

\* The fields of the Request structure.
JsonKeys == {"Request", "Source", "Response"}

\* json.Marshal of a Request: an object holding the three fields.
JsonMarshal(req) ==
    <<"{", "Request">> \o req.Request \o <<"Source">> \o req.Source
        \o <<"Response">> \o req.Response \o <<"}">>

\* The value of one key of an object's body: the chunks after the key up to the
\* next key; empty when the key is absent.
JsonField(body, key) ==
    IF ~Contains(body, key) THEN <<>>
    ELSE LET rest == SliceFrom(body, IndexOf(body, key))
             ends == {i \in 1..Len(rest) : rest[i] \in JsonKeys}
             stop == IF ends = {} THEN Len(rest) + 1
                     ELSE CHOOSE i \in ends : \A j \in ends : i <= j
         IN  SubSeq(rest, 1, stop - 1)

\* json.Unmarshal into a Request: an error unless the payload is an object;
\* absent fields are left empty.  Before it, a variant that never fails.
JsonValidAny(payload) == TRUE
JsonValid(payload) ==
    /\ Len(payload) >= 2
    /\ payload[1] = "{"
    /\ payload[Len(payload)] = "}"
    /\ LET body == SubSeq(payload, 2, Len(payload) - 1)
       IN  body = <<>> \/ body[1] \in JsonKeys

JsonUnmarshal(payload) ==
    LET body == SubSeq(payload, 2, Len(payload) - 1)
    IN  [Request  |-> JsonField(body, "Request"),
         Source   |-> JsonField(body, "Source"),
         Response |-> JsonField(body, "Response")]

\* ---------------------------------------------------------------- the gateway's pure steps

\* The label of a Host: the part before the first "." when there is one; before
\* it, a variant that keeps the whole Host and one that cuts at the last ".".
LabelWholeHost(hostHeader) == hostHeader
LabelLastDot(hostHeader) ==
    IF Contains(hostHeader, ".")
    THEN SubSeq(hostHeader, 1,
                (CHOOSE i \in 1..Len(hostHeader) :
                    hostHeader[i] = "." /\ \A j \in (i + 1)..Len(hostHeader) : hostHeader[j] # ".") - 1)
    ELSE hostHeader
Label(hostHeader) ==
    IF Contains(hostHeader, ".") THEN Split(hostHeader, ".")[1] ELSE hostHeader

\* net.SplitHostPort, the host part: what precedes the one ":" of host:port, or
\* what the brackets of [host]:port hold; on an error (no port, colons outside
\* brackets) the host comes back empty and RemoteIP drops the error.
SplitHostPort(addr) ==
    LET colons == {i \in 1..Len(addr) : addr[i] = ":"}
    IN  IF addr # <<>> /\ addr[1] = "["
        THEN IF Contains(addr, "]") /\ IndexOf(addr, "]") + 1 \in colons
                   /\ \A i \in colons : i <= IndexOf(addr, "]") + 1
             THEN SubSeq(addr, 2, IndexOf(addr, "]") - 1)
             ELSE <<>>
        ELSE IF Cardinality(colons) = 1
             THEN SubSeq(addr, 1, IndexOf(addr, ":") - 1)
             ELSE <<>>

\* RemoteIP: the first X-Forwarded-For entry without its port, else the peer.
\* Before it, a variant that never reads the header.
RemoteIPPeer(request) == SplitHostPort(request.RemoteAddr)
RemoteIP(request) ==
    IF request.XFF = <<>> THEN SplitHostPort(request.RemoteAddr)
    ELSE LET address == TrimSpace(Split(request.XFF, ",")[1])
         IN  IF Contains(address, ":") THEN Split(address, ":")[1] ELSE address

\* httputil.DumpRequest: the request line and the Host header.
DumpRequest(request) ==
    <<"GET", " ", "/", request.Path, " ", "HTTP/1.1", "\r\n", "Host:", " ">>
        \o request.Host

\* The envelope the handler publishes for a request; before it, a variant that
\* fills the Response field too.
EnvelopeWithResponse(request) ==
    JsonMarshal([Request  |-> DumpRequest(request),
                 Source   |-> RemoteIP(request),
                 Response |-> DumpRequest(request)])
Envelope(request) ==
    JsonMarshal([Request  |-> DumpRequest(request),
                 Source   |-> RemoteIP(request),
                 Response |-> <<>>])

\* ---------------------------------------------------------------- the agent's pure steps

\* The reply of the exposed service, read until it closes the connection.
OkReply == <<"HTTP/1.0", " ", "200", " ", "OK", "\r\n\r\n", "hi">>

\* The status code of a result: the second space-separated token, when there is
\* one; before it, a variant that takes the first token.
HasCode(result) == Len(Split(result, " ")) > 1
CodeOfFirst(result) == Split(result, " ")[1]
CodeOf(result) == Split(result, " ")[2]

\* p.stats[code]++
Bump(s, code) ==
    IF code \in DOMAIN s THEN [s EXCEPT ![code] = @ + 1] ELSE s @@ (code :> 1)

RecentMax == 5

\* append, then keep the last RecentMax entries; before it, a variant that keeps
\* the first.
TruncateHead(list) ==
    IF Len(list) > RecentMax THEN SubSeq(list, 1, RecentMax) ELSE list
Truncate(list) ==
    IF Len(list) > RecentMax THEN SliceFrom(list, Len(list) - RecentMax) ELSE list

\* ---------------------------------------------------------------- the processes

\* The HTTP handler goroutines of the gateway, one per caller, named in the order
\* their requests arrive.
Handlers == {"h1", "h2"}
Earlier(h) == IF h = "h2" THEN {"h1"} ELSE {}

\* The agents.  No agent is named "b".
Agents == {"A1"}

\* The Host headers callers send.
Hosts == {<<"a", ".", "t", ".", "example">>, <<"b">>}

PeerAddr == <<"192.0.2.7", ":", "5000">>

\* The requests of the wider input space: Hosts with and without a suffix, with
\* one label under two suffixes and with an empty first component; X-Forwarded-For
\* absent, with one and with two entries, with spaces, with a port, with an IPv6
\* entry, with an empty first entry; an IPv4 and an IPv6 peer.
HostInputs ==
    {<<"a", ".", "t", ".", "example">>, <<"a", ".", "other">>, <<"a">>,
     <<"b", ".", "t", ".", "example">>, <<".", "t">>}
XFFInputs ==
    {<<>>,
     <<"10.0.0.5", ",", " ", "1.2.3.4">>,
     <<" ", "10.0.0.5", ":", "8080", " ", ",", "1.2.3.4">>,
     <<"10.0.0.5">>,
     <<"2001", ":", "db8", ":", ":", "1">>,
     <<",", "1.2.3.4">>}
PeerInputs ==
    {PeerAddr, <<"[", "2001", ":", "db8", ":", ":", "1", "]", ":", "5000">>}

\* The wait loop's bound.
MaxPolls == 40

\* How much may go against the plain course in one run.  Each of these counts one:
\* a request that arrives while another is still being handled; a request whose
\* body cannot be read, a publish the broker never gets, a refused subscribe, a
\* connection that cannot be hijacked, an exposed service that cannot be dialled
\* or that closes without a byte.
MaxUpsets == 1

None == "none"
NoIncoming == [Host |-> <<>>, Path |-> None, XFF |-> <<>>, RemoteAddr |-> <<>>]
NoDecoded == [Request |-> <<>>, Source |-> <<>>, Response |-> <<>>, re |-> None]
NoAnswer == [by |-> None, payload |-> <<>>]
NoFound == [response |-> <<>>, from |-> None]
NoCallback == [h |-> None, payload |-> <<>>, re |-> None]

\* cmd_client.go 485-520: the event loop waits, the first tab is the active one.
TuiAtStart == [pc |-> "wait", tab |-> 0, chart |-> <<>>]

VARIABLES
    \* gateway, per handler
    pc,         \* where the handler is
    r,          \* the incoming request
    host,       \* the label derived from r.Host
    toSend,     \* the envelope, json.Marshal of the Request built for r
    response,   \* the mailbox the subscribe callback fills
    count,      \* polls slept
    conn,       \* the hijacked connection: "none", "open", "closed"
    bufrw,      \* bytes written to the hijacked connection's buffer, not yet flushed
    sock,       \* bytes the caller's socket has received
    wcode,      \* what was sent through the ResponseWriter: "none", or the error
                \* answered, "dump", "subscribe" or "500"
    \* gateway, the one broker client all handlers share
    route,      \* topic -> the handler whose callback is registered, or None
    gwInbox,    \* messages the broker forwarded to the gateway, not yet dispatched
    cb,         \* the callback the client's goroutine is in: its handler and its
                \* message, or none
    \* agent
    subscribed, \* the agent is connected and subscribed to clients/<name>
    inbox,      \* messages the broker forwarded to the agent, not yet handled
    apc,        \* "idle", or "fetch" while onMessage is past its decode
    req,        \* the decoded Request onMessage is handling
    stats,      \* status code -> count
    requests,   \* the recent requests
    \* the environment
    upsets,     \* failures and overlapping arrivals so far
    \* history, read by no action
    sent,       \* per handler: "none", or "ok" / "lost" for the outcome of its Publish
    npub,       \* per handler: number of Publish calls
    from,       \* per handler: the request the mailbox's content answers
    exit,       \* per handler: how the wait loop ended, "reply" or "timeout"
    fell,       \* per handler: the check after the unsubscribe found the mailbox empty
    found,      \* per handler: what the mailbox held when the wait loop ended, and
                \* the request that content answers
    injected,   \* payloads other broker clients have published
    answer,     \* per handler: who answered its envelope, and with what payload
    logged,     \* per agent: onMessage has printed "Failed to unmarshal"
    taken,      \* per agent: the payloads onMessage took past its decode, in order
    log,        \* per agent: what each finished onMessage dialled, recorded and
                \* published, in order
    tui,        \* per agent: the main goroutine's event loop: where it is, the
                \* active tab, and what a refresh under way has put in its chart
    \* the two processes
    gw,         \* the gateway process: where Execute is, its exit status, and whether
                \* it has tried the broker (dialled), reached it (up), tried to listen
    ag          \* per agent process: where Execute is, its exit status, its expose
                \* and tunnel arguments, its name (and the one it was given), its
                \* client id, the topic of its subscription, whether it has tried
                \* the broker and has a connection to it, how many connections it
                \* has had and how many OnConnect calls, and why it exited

hVars == <<pc, r, host, toSend, cb, response, count, conn, bufrw, sock, wcode, route, sent, npub, from,
           exit, fell, found>>
aVars == <<subscribed, apc, req, stats, requests, logged, answer, taken, log, tui>>
vars == <<pc, r, host, toSend, cb, response, count, conn, bufrw, sock, wcode, route, gwInbox,
          subscribed, inbox, apc, req, stats, requests, upsets, sent, npub, from, exit,
          fell, found, injected, answer, logged, taken, log, tui, gw, ag>>

\* The -name argument an agent can be started with, given or left empty, and the
\* identifiers uuid.NewV4 can draw.
NameInputs == {<<>>, <<"a">>}
Uuids == {<<"u1">>, <<"u2">>}

\* cmd_client.go 260-263, 278, 285: p.name, the name the agent goes by.
AgentName(a) == ag[a].name

Topics == {Topic(Label(hostHeader)) : hostHeader \in Hosts \cup HostInputs}
              \cup {Topic(name) : name \in (NameInputs \ {<<>>}) \cup Uuids}

InitRelay ==
    /\ pc = [h \in Handlers |-> "idle"]
    /\ r = [h \in Handlers |-> NoIncoming]
    /\ host = [h \in Handlers |-> <<>>]
    /\ toSend = [h \in Handlers |-> <<>>]
    /\ response = [h \in Handlers |-> <<>>]
    /\ count = [h \in Handlers |-> 0]
    /\ conn = [h \in Handlers |-> "none"]
    /\ bufrw = [h \in Handlers |-> <<>>]
    /\ sock = [h \in Handlers |-> <<>>]
    /\ wcode = [h \in Handlers |-> "none"]
    /\ route = [t \in Topics |-> None]
    /\ gwInbox = <<>>
    /\ cb = NoCallback
    /\ subscribed = [a \in Agents |-> FALSE]
    /\ inbox = [a \in Agents |-> <<>>]
    /\ apc = [a \in Agents |-> "idle"]
    /\ req = [a \in Agents |-> NoDecoded]
    /\ stats = [a \in Agents |-> <<>>]
    /\ requests = [a \in Agents |-> <<>>]
    /\ upsets = 0
    /\ sent = [h \in Handlers |-> "none"]
    /\ npub = [h \in Handlers |-> 0]
    /\ from = [h \in Handlers |-> None]
    /\ exit = [h \in Handlers |-> None]
    /\ fell = [h \in Handlers |-> FALSE]
    /\ found = [h \in Handlers |-> NoFound]
    /\ injected = 0
    /\ answer = [h \in Handlers |-> NoAnswer]
    /\ logged = [a \in Agents |-> FALSE]
    /\ taken = [a \in Agents |-> <<>>]
    /\ log = [a \in Agents |-> <<>>]
    /\ tui = [a \in Agents |-> TuiAtStart]

\* The arguments an agent can be started with: each given or left empty.
ExposeInputs == {<<>>, <<"localhost", ":", "8080">>}
TunnelInputs == {<<>>, <<"t.example">>}

\* The exit status of a process that has not exited.
Running == -1

\* A process at the entry of Execute.
GatewayAtStart ==
    [pc |-> "start", exit |-> Running, dialled |-> FALSE, up |-> FALSE, listened |-> FALSE,
     why |-> None]
AgentAtStart(expose, tunnel, name) ==
    [pc |-> "start", exit |-> Running, expose |-> expose, tunnel |-> tunnel,
     name |-> name, given |-> name, id |-> <<>>, topic |-> <<>>,
     dialled |-> FALSE, up |-> FALSE, conns |-> 0, subs |-> 0, why |-> None]

\* Both processes are up: the gateway serves, the agent has reached the broker and
\* its OnConnect callback is due.
Init ==
    /\ InitRelay
    /\ gw = [GatewayAtStart EXCEPT !.pc = "serving", !.dialled = TRUE, !.up = TRUE,
                                   !.listened = TRUE]
    /\ ag = [a \in Agents |->
                [AgentAtStart(<<"localhost", ":", "8080">>, <<"t.example">>, <<"a">>)
                    EXCEPT !.pc = "connected", !.id = <<"a">>, !.dialled = TRUE,
                           !.up = TRUE, !.conns = 1]]

\* Both processes are at the entry of Execute, the agent with any arguments.
InitStart ==
    /\ InitRelay
    /\ gw = GatewayAtStart
    /\ ag \in [Agents -> {AgentAtStart(expose, tunnel, name) :
                              expose \in ExposeInputs, tunnel \in TunnelInputs,
                              name \in NameInputs}]

\* The outcomes an operation of the environment can have: success, and failure
\* while the run's upsets are not used up.
OutcomesAfter(n) == IF upsets + n < MaxUpsets THEN {TRUE, FALSE} ELSE {TRUE}
Outcomes == OutcomesAfter(0)
Fault(ok) == upsets' = IF ok THEN upsets ELSE upsets + 1

\* The server runs every request in a goroutine of its own: a handler is running.
Busy == \E g \in Handlers : pc[g] \notin {"idle", "done"}
Overlap == IF Busy THEN 1 ELSE 0

\* ---------------------------------------------------------------- the broker

\* A message published on a topic is forwarded to every client subscribed to it:
\* to the agent of that name, and to the gateway when a route for the topic exists.
Forward(topic, m) ==
    /\ inbox' = [a \in Agents |->
                    IF subscribed[a] /\ ag[a].topic = topic
                    THEN Append(inbox[a], m) ELSE inbox[a]]
    /\ gwInbox' = IF route[topic] # None
                  THEN Append(gwInbox, [topic |-> topic, payload |-> m.payload, re |-> m.re])
                  ELSE gwInbox

\* ---------------------------------------------------------------- the gateway handler

\* Lines 104-155: derive the label, dump the request, build the envelope.
Arrive(h, hostHeader, xff, peer) ==
    /\ gw.pc = "serving"
    /\ pc[h] = "idle"
    /\ \A g \in Earlier(h) : pc[g] # "idle"
    /\ upsets + Overlap <= MaxUpsets
    /\ \E dumped \in OutcomesAfter(Overlap) :
          /\ r' = [r EXCEPT ![h] = [Host |-> hostHeader, Path |-> h,
                                    XFF |-> xff, RemoteAddr |-> peer]]
          /\ host' = [host EXCEPT ![h] = Label(hostHeader)]
          /\ toSend' = [toSend EXCEPT ![h] =
                            IF dumped THEN Envelope(r'[h]) ELSE <<>>]
          /\ upsets' = upsets + Overlap + (IF dumped THEN 0 ELSE 1)
          /\ IF dumped
             THEN pc' = [pc EXCEPT ![h] = "publish"] /\ UNCHANGED wcode
             ELSE pc' = [pc EXCEPT ![h] = "done"]
                    /\ wcode' = [wcode EXCEPT ![h] = "dump"]
    /\ UNCHANGED <<cb, response, count, conn, bufrw, sock, route, gwInbox, sent, npub, from,
                   exit, fell, found, injected, inbox>>
    /\ UNCHANGED <<aVars, gw, ag>>

\* A request of a direct caller for one of the Hosts.
Receive(h) == \E hostHeader \in Hosts : Arrive(h, hostHeader, <<>>, PeerAddr)

\* A request of the wider input space.
ReceiveAny(h) ==
    \E hostHeader \in HostInputs, xff \in XFFInputs, peer \in PeerInputs :
        Arrive(h, hostHeader, xff, peer)

\* Lines 157-162: publish the envelope; the outcome is not looked at.  Before it,
\* a variant that publishes again when the publish failed, one that waits while
\* another request for the label is being relayed, one
\* that gives up when the publish fails, and one that publishes only for the label
\* of an agent and answers any other request at once.
PublishRetries(h) ==
    /\ pc[h] = "publish"
    /\ \E ok \in Outcomes :
          /\ Fault(ok)
          /\ sent' = [sent EXCEPT ![h] = IF ok THEN "ok" ELSE "lost"]
          /\ IF ok
             THEN /\ Forward(Topic(host[h]), [payload |-> toSend[h], re |-> h])
                  /\ pc' = [pc EXCEPT ![h] = "subscribe"]
             ELSE UNCHANGED <<inbox, gwInbox, pc>>
    /\ npub' = [npub EXCEPT ![h] = @ + 1]
    /\ UNCHANGED <<r, host, toSend, cb, response, count, conn, bufrw, sock, wcode, route, from, exit,
                   fell, found, injected>>
    /\ UNCHANGED <<aVars, gw, ag>>

PublishQueued(h) ==
    /\ pc[h] = "publish"
    /\ \A g \in Handlers \ {h} : host[g] = host[h] => pc[g] \in {"idle", "publish", "done"}
    /\ \E ok \in Outcomes :
          /\ Fault(ok)
          /\ sent' = [sent EXCEPT ![h] = IF ok THEN "ok" ELSE "lost"]
          /\ IF ok
             THEN Forward(Topic(host[h]), [payload |-> toSend[h], re |-> h])
             ELSE UNCHANGED <<inbox, gwInbox>>
    /\ npub' = [npub EXCEPT ![h] = @ + 1]
    /\ pc' = [pc EXCEPT ![h] = "subscribe"]
    /\ UNCHANGED <<r, host, toSend, cb, response, count, conn, bufrw, sock, wcode, route, from, exit,
                   fell, found, injected>>
    /\ UNCHANGED <<aVars, gw, ag>>

PublishAborts(h) ==
    /\ pc[h] = "publish"
    /\ \E ok \in Outcomes :
          /\ Fault(ok)
          /\ sent' = [sent EXCEPT ![h] = IF ok THEN "ok" ELSE "lost"]
          /\ IF ok
             THEN /\ Forward(Topic(host[h]), [payload |-> toSend[h], re |-> h])
                  /\ pc' = [pc EXCEPT ![h] = "subscribe"]
                  /\ UNCHANGED wcode
             ELSE /\ pc' = [pc EXCEPT ![h] = "done"]
                  /\ wcode' = [wcode EXCEPT ![h] = "publish"]
                  /\ UNCHANGED <<inbox, gwInbox>>
    /\ npub' = [npub EXCEPT ![h] = @ + 1]
    /\ UNCHANGED <<r, host, toSend, cb, response, count, conn, bufrw, sock, route, from, exit, fell, found,
                   injected>>
    /\ UNCHANGED <<aVars, gw, ag>>

PublishOnlyKnown(h) ==
    /\ pc[h] = "publish"
    /\ IF \E a \in Agents : AgentName(a) = host[h]
       THEN /\ \E ok \in Outcomes :
                  /\ Fault(ok)
                  /\ sent' = [sent EXCEPT ![h] = IF ok THEN "ok" ELSE "lost"]
                  /\ IF ok
                     THEN Forward(Topic(host[h]), [payload |-> toSend[h], re |-> h])
                     ELSE UNCHANGED <<inbox, gwInbox>>
            /\ npub' = [npub EXCEPT ![h] = @ + 1]
            /\ pc' = [pc EXCEPT ![h] = "subscribe"]
            /\ UNCHANGED wcode
       ELSE /\ pc' = [pc EXCEPT ![h] = "done"]
            /\ wcode' = [wcode EXCEPT ![h] = "offline"]
            /\ UNCHANGED <<sent, npub, inbox, gwInbox, upsets>>
    /\ UNCHANGED <<r, host, toSend, cb, response, count, conn, bufrw, sock, route, from, exit, fell, found,
                   injected>>
    /\ UNCHANGED <<aVars, gw, ag>>

Publish(h) ==
    /\ pc[h] = "publish"
    /\ \E ok \in Outcomes :
          /\ Fault(ok)
          /\ sent' = [sent EXCEPT ![h] = IF ok THEN "ok" ELSE "lost"]
          /\ IF ok
             THEN Forward(Topic(host[h]), [payload |-> toSend[h], re |-> h])
             ELSE UNCHANGED <<inbox, gwInbox>>
    /\ npub' = [npub EXCEPT ![h] = @ + 1]
    /\ pc' = [pc EXCEPT ![h] = "subscribe"]
    /\ UNCHANGED <<r, host, toSend, cb, response, count, conn, bufrw, sock, wcode, route, from, exit,
                   fell, found, injected>>
    /\ UNCHANGED <<aVars, gw, ag>>

\* Lines 164-197: create the mailbox and subscribe; the client keeps one callback
\* per topic, so this replaces the callback of any handler subscribed before.
Subscribe(h) ==
    /\ pc[h] = "subscribe"
    /\ response' = [response EXCEPT ![h] = <<>>]
    /\ \E ok \in Outcomes :
          /\ Fault(ok)
          /\ IF ok
             THEN /\ route' = [route EXCEPT ![Topic(host[h])] = h]
                  /\ pc' = [pc EXCEPT ![h] = "poll"]
                  /\ UNCHANGED wcode
             ELSE /\ wcode' = [wcode EXCEPT ![h] = "subscribe"]
                  /\ pc' = [pc EXCEPT ![h] = "done"]
                  /\ UNCHANGED route
    /\ UNCHANGED <<r, host, toSend, cb, count, conn, bufrw, sock, gwInbox, sent, npub, from, exit, fell, found,
                   injected, inbox>>
    /\ UNCHANGED <<aVars, gw, ag>>

\* Lines 172-187: the subscribe callback of handler h, given a delivered message.
Callback(h, m) ==
    IF IsResponse(m.payload)
    THEN /\ response' = [response EXCEPT ![h] = StripMarker(m.payload)]
         /\ from' = [from EXCEPT ![h] = m.re]
    ELSE UNCHANGED <<response, from>>

\* The broker client's dispatch of the next forwarded message to the callback
\* registered for its topic; a message whose topic has no route is dropped.
Dispatch ==
    /\ cb = NoCallback
    /\ gwInbox # <<>>
    /\ gwInbox' = Tail(gwInbox)
    /\ IF route[Head(gwInbox).topic] # None
       THEN Callback(route[Head(gwInbox).topic], Head(gwInbox))
       ELSE UNCHANGED <<response, from>>
    /\ UNCHANGED <<pc, r, host, toSend, cb, count, conn, bufrw, sock, wcode, route, sent, npub, inbox,
                   exit, fell, found, injected, upsets>>
    /\ UNCHANGED <<aVars, gw, ag>>

\* The same dispatch in its two halves: the client's goroutine enters the callback
\* registered for the next message's topic, and the callback makes its test and
\* its store.  The handler's goroutine runs on in between: no lock is taken on
\* either side.
CallbackEnter ==
    /\ cb = NoCallback
    /\ gwInbox # <<>>
    /\ gwInbox' = Tail(gwInbox)
    /\ cb' = IF route[Head(gwInbox).topic] # None
             THEN [h |-> route[Head(gwInbox).topic], payload |-> Head(gwInbox).payload,
                   re |-> Head(gwInbox).re]
             ELSE NoCallback
    /\ UNCHANGED <<pc, r, host, toSend, response, count, conn, bufrw, sock, wcode, route, sent,
                   npub, from, inbox, exit, fell, found, injected, upsets>>
    /\ UNCHANGED <<aVars, gw, ag>>

CallbackStore ==
    /\ cb # NoCallback
    /\ Callback(cb.h, cb)
    /\ cb' = NoCallback
    /\ UNCHANGED <<pc, r, host, toSend, count, conn, bufrw, sock, wcode, route, gwInbox, sent,
                   npub, inbox, exit, fell, found, injected, upsets>>
    /\ UNCHANGED <<aVars, gw, ag>>

\* What a read of h's mailbox can give: its content, and, while h's callback is
\* storing, also what is being stored (the read and the store are not ordered).
Racing(h) == cb.h = h /\ IsResponse(cb.payload)
Seen(h) == {response[h]} \cup (IF Racing(h) THEN {StripMarker(cb.payload)} ELSE {})

\* A string read while it is stored: the bytes of neither.
Garbled == <<"garbled">>

\* Lines 205-214: one pass of the wait loop, a sleep or the exit.  After the exit
\* count is read no more: the model forgets it.  Before it, a variant that waits
\* for as long as the mailbox is empty.
PollUnbounded(h) ==
    /\ pc[h] = "poll"
    /\ \E seen \in Seen(h) :
          IF Len(seen) = 0
          THEN count' = [count EXCEPT ![h] = @ + 1] /\ UNCHANGED <<pc, exit, found>>
          ELSE /\ pc' = [pc EXCEPT ![h] = "unsub"]
               /\ count' = [count EXCEPT ![h] = 0]
               /\ exit' = [exit EXCEPT ![h] = "reply"]
               /\ found' = [found EXCEPT ![h] = [response |-> seen, from |-> from[h]]]
    /\ UNCHANGED <<r, host, toSend, cb, response, conn, bufrw, sock, wcode, route, gwInbox, sent, npub,
                   from, fell, injected, inbox, upsets>>
    /\ UNCHANGED <<aVars, gw, ag>>

Poll(h) ==
    /\ pc[h] = "poll"
    /\ \E seen \in Seen(h) :
          IF Len(seen) = 0 /\ count[h] < MaxPolls
          THEN count' = [count EXCEPT ![h] = @ + 1] /\ UNCHANGED <<pc, exit, found>>
          ELSE /\ pc' = [pc EXCEPT ![h] = "unsub"]
               /\ count' = [count EXCEPT ![h] = 0]
               /\ exit' = [exit EXCEPT ![h] =
                               IF Len(seen) = 0 THEN "timeout" ELSE "reply"]
               /\ found' = [found EXCEPT ![h] = [response |-> seen, from |-> from[h]]]
    /\ UNCHANGED <<r, host, toSend, cb, response, conn, bufrw, sock, wcode, route, gwInbox, sent, npub,
                   from, fell, injected, inbox, upsets>>
    /\ UNCHANGED <<aVars, gw, ag>>

\* Lines 216-227: remove the topic's route, whoever registered it; before it, a
\* variant that leaves the route.
UnsubscribeKeeps(h) ==
    /\ pc[h] = "unsub"
    /\ pc' = [pc EXCEPT ![h] = "check"]
    /\ UNCHANGED <<r, host, toSend, cb, response, count, conn, bufrw, sock, wcode, route, gwInbox, sent,
                   npub, from, exit, fell, found, injected, inbox, upsets>>
    /\ UNCHANGED <<aVars, gw, ag>>

Unsubscribe(h) ==
    /\ pc[h] = "unsub"
    /\ route' = [route EXCEPT ![Topic(host[h])] = None]
    /\ pc' = [pc EXCEPT ![h] = "check"]
    /\ UNCHANGED <<r, host, toSend, cb, response, count, conn, bufrw, sock, wcode, gwInbox, sent, npub,
                   from, exit, fell, found, injected, inbox, upsets>>
    /\ UNCHANGED <<aVars, gw, ag>>

\* Lines 229-254: an empty mailbox becomes the timeout body.
Check(h) ==
    /\ pc[h] = "check"
    /\ \E seen \in Seen(h) :
          /\ IF Len(seen) = 0
             THEN response' = [response EXCEPT ![h] = TimeoutBody]
             ELSE UNCHANGED response
          /\ fell' = [fell EXCEPT ![h] = (Len(seen) = 0)]
    /\ pc' = [pc EXCEPT ![h] = "hijack"]
    /\ UNCHANGED <<r, host, toSend, cb, count, conn, bufrw, sock, wcode, route, gwInbox, sent, npub,
                   from, exit, found, injected, inbox, upsets>>
    /\ UNCHANGED <<aVars, gw, ag>>

\* Lines 269-280: take the connection over, or answer 500.  Before it, a variant
\* that sends the response all the same.
HijackFailWrites(h) ==
    /\ pc[h] = "hijack"
    /\ \E ok \in Outcomes :
          /\ Fault(ok)
          /\ IF ok
             THEN /\ conn' = [conn EXCEPT ![h] = "open"]
                  /\ pc' = [pc EXCEPT ![h] = "write"]
                  /\ UNCHANGED <<wcode, sock>>
             ELSE /\ wcode' = [wcode EXCEPT ![h] = "500"]
                  /\ sock' = [sock EXCEPT ![h] = response[h]]
                  /\ pc' = [pc EXCEPT ![h] = "done"]
                  /\ UNCHANGED conn
    /\ UNCHANGED <<r, host, toSend, cb, response, count, bufrw, route, gwInbox, sent, npub, from,
                   exit, fell, found, injected, inbox>>
    /\ UNCHANGED <<aVars, gw, ag>>

Hijack(h) ==
    /\ pc[h] = "hijack"
    /\ \E ok \in Outcomes :
          /\ Fault(ok)
          /\ IF ok
             THEN /\ conn' = [conn EXCEPT ![h] = "open"]
                  /\ pc' = [pc EXCEPT ![h] = "write"]
                  /\ UNCHANGED wcode
             ELSE /\ wcode' = [wcode EXCEPT ![h] = "500"]
                  /\ pc' = [pc EXCEPT ![h] = "done"]
                  /\ UNCHANGED conn
    /\ UNCHANGED <<r, host, toSend, cb, response, count, bufrw, sock, route, gwInbox, sent, npub, from,
                   exit, fell, found, injected, inbox>>
    /\ UNCHANGED <<aVars, gw, ag>>

\* Line 285: write the mailbox to the connection's buffer.
Write(h) ==
    /\ pc[h] = "write"
    /\ \E seen \in Seen(h) \cup (IF Racing(h) THEN {Garbled} ELSE {}) :
          bufrw' = [bufrw EXCEPT ![h] = @ \o seen]
    /\ pc' = [pc EXCEPT ![h] = "flush"]
    /\ UNCHANGED <<r, host, toSend, cb, response, count, conn, sock, wcode, route, gwInbox, sent, npub,
                   from, exit, fell, found, injected, inbox, upsets>>
    /\ UNCHANGED <<aVars, gw, ag>>

\* Lines 286-289: flush the buffer to the socket, close, return; before it, a
\* variant that returns without the close.
FlushLeaveOpen(h) ==
    /\ pc[h] = "flush"
    /\ sock' = [sock EXCEPT ![h] = @ \o bufrw[h]]
    /\ bufrw' = [bufrw EXCEPT ![h] = <<>>]
    /\ pc' = [pc EXCEPT ![h] = "done"]
    /\ UNCHANGED <<r, host, toSend, cb, response, count, conn, wcode, route, gwInbox, sent, npub, from,
                   exit, fell, found, injected, inbox, upsets>>
    /\ UNCHANGED <<aVars, gw, ag>>

FlushClose(h) ==
    /\ pc[h] = "flush"
    /\ sock' = [sock EXCEPT ![h] = @ \o bufrw[h]]
    /\ bufrw' = [bufrw EXCEPT ![h] = <<>>]
    /\ conn' = [conn EXCEPT ![h] = "closed"]
    /\ pc' = [pc EXCEPT ![h] = "done"]
    /\ UNCHANGED <<r, host, toSend, cb, response, count, wcode, route, gwInbox, sent, npub, from, exit,
                   fell, found, injected, inbox, upsets>>
    /\ UNCHANGED <<aVars, gw, ag>>

\* ---------------------------------------------------------------- the agent

\* cmd_client.go 283-291: the OnConnect callback, which the broker client calls
\* once for every connection it establishes, the first and each one after a loss:
\* subscribe to clients/<name>.  A failure, as on a connection that is down again,
\* ends the process with status 1.  Before it, a variant called for the first
\* connection only.
OnConnectOnce(a) ==
    /\ ag[a].pc = "connected"
    /\ ag[a].subs = 0
    /\ ag[a].conns > 0
    /\ \E ok \in (IF ag[a].up THEN Outcomes ELSE {FALSE}) :
          /\ upsets' = IF ok \/ ~ag[a].up THEN upsets ELSE upsets + 1
          /\ IF ok
             THEN /\ subscribed' = [subscribed EXCEPT ![a] = TRUE]
                  /\ ag' = [ag EXCEPT ![a].subs = @ + 1, ![a].topic = Topic(AgentName(a))]
             ELSE /\ ag' = [ag EXCEPT ![a].subs = @ + 1, ![a].pc = "exited",
                                      ![a].exit = 1, ![a].why = "subscribe"]
                  /\ UNCHANGED subscribed
    /\ UNCHANGED <<apc, req, stats, requests, logged, answer, taken, log, tui, inbox,
                   gwInbox, injected, gw>>
    /\ UNCHANGED hVars

OnConnect(a) ==
    /\ ag[a].pc = "connected"
    /\ ag[a].subs < ag[a].conns
    /\ \E ok \in (IF ag[a].up THEN Outcomes ELSE {FALSE}) :
          /\ upsets' = IF ok \/ ~ag[a].up THEN upsets ELSE upsets + 1
          /\ IF ok
             THEN /\ subscribed' = [subscribed EXCEPT ![a] = TRUE]
                  /\ ag' = [ag EXCEPT ![a].subs = @ + 1, ![a].topic = Topic(AgentName(a))]
             ELSE /\ ag' = [ag EXCEPT ![a].subs = @ + 1, ![a].pc = "exited",
                                      ![a].exit = 1, ![a].why = "subscribe"]
                  /\ UNCHANGED subscribed
    /\ UNCHANGED <<apc, req, stats, requests, logged, answer, taken, log, tui, inbox,
                   gwInbox, injected, gw>>
    /\ UNCHANGED hVars

\* cmd_client.go 101-132: take the next payload; ignore a response, drop what does
\* not decode, else go on to the fetch.  The broker client calls the callback for
\* one message at a time, in the order of their arrival (the client's options are
\* the defaults, cmd_client.go 273-291): the next call waits for this one's return.
\* Before it, a variant in which a call does not wait for the one before, and one
\* that takes every payload on to the fetch.
OnMessageAll(a) ==
    /\ ag[a].pc = "connected"
    /\ apc[a] = "idle"
    /\ inbox[a] # <<>>
    /\ inbox' = [inbox EXCEPT ![a] = Tail(@)]
    /\ LET m == Head(inbox[a])
           decodes == ~IsResponse(m.payload) /\ JsonValid(m.payload)
       IN  /\ apc' = [apc EXCEPT ![a] = "fetch"]
           /\ req' = [req EXCEPT ![a] =
                         IF decodes THEN JsonUnmarshal(m.payload) @@ [re |-> m.re]
                         ELSE [NoDecoded EXCEPT !.re = m.re]]
           /\ taken' = [taken EXCEPT ![a] = IF decodes THEN Append(@, m) ELSE @]
    /\ UNCHANGED <<subscribed, stats, requests, logged, answer, log, tui, gwInbox, upsets,
                   injected>>
    /\ UNCHANGED <<hVars, gw, ag>>

OnMessageUnordered(a) ==
    /\ ag[a].pc = "connected"
    /\ inbox[a] # <<>>
    /\ inbox' = [inbox EXCEPT ![a] = Tail(@)]
    /\ LET m == Head(inbox[a])
       IN  IF IsResponse(m.payload)
           THEN UNCHANGED <<apc, req, logged, taken>>
           ELSE IF ~JsonValid(m.payload)
           THEN /\ logged' = [logged EXCEPT ![a] = TRUE]
                /\ UNCHANGED <<apc, req, taken>>
           ELSE /\ apc' = [apc EXCEPT ![a] = "fetch"]
                /\ UNCHANGED logged
                /\ req' = [req EXCEPT ![a] = JsonUnmarshal(m.payload) @@ [re |-> m.re]]
                /\ taken' = [taken EXCEPT ![a] = Append(@, m)]
    /\ UNCHANGED <<subscribed, stats, requests, answer, log, tui, gwInbox, upsets, injected>>
    /\ UNCHANGED <<hVars, gw, ag>>

OnMessage(a) ==
    /\ ag[a].pc = "connected"
    /\ apc[a] = "idle"
    /\ inbox[a] # <<>>
    /\ inbox' = [inbox EXCEPT ![a] = Tail(@)]
    /\ LET m == Head(inbox[a])
       IN  IF IsResponse(m.payload)
           THEN UNCHANGED <<apc, req, logged, taken>>
           ELSE IF ~JsonValid(m.payload)
           THEN /\ logged' = [logged EXCEPT ![a] = TRUE]
                /\ UNCHANGED <<apc, req, taken>>
           ELSE /\ apc' = [apc EXCEPT ![a] = "fetch"]
                /\ UNCHANGED logged
                /\ req' = [req EXCEPT ![a] = JsonUnmarshal(m.payload) @@ [re |-> m.re]]
                /\ taken' = [taken EXCEPT ![a] = Append(@, m)]
    /\ UNCHANGED <<subscribed, stats, requests, answer, log, tui, gwInbox, upsets, injected>>
    /\ UNCHANGED <<hVars, gw, ag>>

\* The results a fetch can end with: the reply of the exposed service, or, as
\* failures, no byte at all or the fallback body when the dial fails.
Results == {OkReply} \cup (IF upsets < MaxUpsets THEN {<<>>, FallbackBody} ELSE {})

\* cmd_client.go 226: the message the agent publishes for a result, and its topic;
\* before it, a variant that publishes on the topic of another name, and one that
\* publishes the result as it is.
ReplyElsewhere(a, result) == [topic |-> Topic(<<"b">>), payload |-> Marker \o result]
ReplyUnmarked(a, result) == [topic |-> Topic(AgentName(a)), payload |-> result]
Reply(a, result) == [topic |-> Topic(AgentName(a)), payload |-> Marker \o result]

\* cmd_client.go 134-228: dial the exposed service and read its reply until it
\* closes the connection (or keep the fallback body), count the status code,
\* record the request, publish the reply.  A service that never closes the
\* connection, a failure too, leaves io.Copy waiting: onMessage does not return.
\* The writes of p.stats and p.requests take no lock: when they fall into a refresh
\* of the main goroutine, the refresh reads the old values or the new, or the
\* runtime ends the process (concurrent map read and map write), status 2.
Fetch(a) ==
    /\ ag[a].pc = "connected"
    /\ apc[a] = "fetch"
    /\ \/ \E result \in Results :
             /\ Fault(result = OkReply)
             /\ stats' = [stats EXCEPT ![a] =
                             IF HasCode(result) THEN Bump(@, CodeOf(result)) ELSE @]
             /\ requests' = [requests EXCEPT ![a] =
                             Truncate(Append(@, [Request  |-> req[a].Request,
                                                 Source   |-> req[a].Source,
                                                 Response |-> result]))]
             /\ Forward(Reply(a, result).topic,
                        [payload |-> Reply(a, result).payload, re |-> req[a].re])
             /\ answer' = [h \in Handlers |->
                             IF h = req[a].re
                             THEN [by |-> a, payload |-> Reply(a, result).payload]
                             ELSE answer[h]]
             /\ log' = [log EXCEPT ![a] =
                            Append(@, [re       |-> req[a].re,
                                       Request  |-> req[a].Request,
                                       Source   |-> req[a].Source,
                                       dialled  |-> result # FallbackBody,
                                       result   |-> result,
                                       topic    |-> Reply(a, result).topic,
                                       payload  |-> Reply(a, result).payload])]
             /\ apc' = [apc EXCEPT ![a] = "idle"]
             /\ req' = [req EXCEPT ![a] = NoDecoded]
             /\ UNCHANGED ag
       \/ /\ upsets < MaxUpsets
          /\ upsets' = upsets + 1
          /\ apc' = [apc EXCEPT ![a] = "hung"]
          /\ UNCHANGED <<req, stats, requests, answer, log, inbox, gwInbox, ag>>
       \/ /\ tui[a].pc = "table"
          /\ ag' = [ag EXCEPT ![a].pc = "exited", ![a].exit = 2, ![a].why = "race"]
          /\ UNCHANGED <<apc, req, stats, requests, answer, log, inbox, gwInbox, upsets>>
    /\ UNCHANGED <<subscribed, logged, taken, tui, injected>>
    /\ UNCHANGED <<hVars, gw>>

\* ---------------------------------------------------------------- the agent's display

\* The chunks that begin a new line.
Newlines ==
    {"\n", "\n\n", "\r\n", "\r\n\r\n", "\n<html>\n<body>\n", "\n</body>\n</html>",
     "\n</body>\n</html>\n"}

\* strings.Split(s, "\n")[0]
FirstLine(s) ==
    IF \E i \in 1..Len(s) : s[i] \in Newlines
    THEN SubSeq(s, 1, (CHOOSE i \in 1..Len(s) :
                          s[i] \in Newlines /\ \A j \in 1..(i - 1) : s[j] \notin Newlines) - 1)
    ELSE s

\* cmd_client.go 527-559: a key.  q and Ctrl-C return 0; h moves the active tab to
\* the left and l to the right, between the two tabs.
Key(a) ==
    /\ ag[a].pc = "connected"
    /\ tui[a].pc = "wait"
    /\ \E key \in {"q", "h", "l"} :
          IF key = "q"
          THEN /\ ag' = [ag EXCEPT ![a].pc = "exited", ![a].exit = 0, ![a].why = "quit"]
               /\ UNCHANGED tui
          ELSE /\ tui' = [tui EXCEPT ![a].tab = IF key = "h" THEN 0 ELSE 1]
               /\ UNCHANGED ag
    /\ UNCHANGED <<subscribed, apc, req, stats, requests, logged, answer, taken, log, inbox,
                   gwInbox, upsets, injected, gw>>
    /\ UNCHANGED hVars

\* cmd_client.go 561-577 and 405-437: the half-second tick.  On the first tab it
\* redraws the uptime; on the second it begins updateResponse, which reads the
\* codes and counts of p.stats into the bar chart.
Tick(a) ==
    /\ ag[a].pc = "connected"
    /\ tui[a].pc = "wait"
    /\ tui' = IF tui[a].tab = 1
              THEN [tui EXCEPT ![a].pc = "table", ![a].chart = stats[a]]
              ELSE tui
    /\ UNCHANGED <<subscribed, apc, req, stats, requests, logged, answer, taken, log, inbox,
                   gwInbox, upsets, injected, gw, ag>>
    /\ UNCHANGED hVars

\* cmd_client.go 439-480: the rest of updateResponse, the table of p.requests.
\* For each entry it takes the second space-separated token of the response's
\* first line, resToks[1], after a test that only an empty slice would fail: a
\* first line without a space makes the index panic, and the process ends with
\* status 2.
Table(a) ==
    /\ ag[a].pc = "connected"
    /\ tui[a].pc = "table"
    /\ IF \E i \in 1..Len(requests[a]) :
             ~Contains(FirstLine(requests[a][i].Response), " ")
       THEN /\ ag' = [ag EXCEPT ![a].pc = "exited", ![a].exit = 2, ![a].why = "panic"]
            /\ UNCHANGED tui
       ELSE /\ tui' = [tui EXCEPT ![a].pc = "wait", ![a].chart = <<>>]
            /\ UNCHANGED ag
    /\ UNCHANGED <<subscribed, apc, req, stats, requests, logged, answer, taken, log, inbox,
                   gwInbox, upsets, injected, gw>>
    /\ UNCHANGED hVars

\* ---------------------------------------------------------------- the processes' start

\* part_010 294-302: connect to the broker, or return 1.
GatewayConnect ==
    /\ gw.pc = "start"
    /\ \E ok \in BOOLEAN :
          gw' = IF ok
                THEN [gw EXCEPT !.dialled = TRUE, !.up = TRUE, !.pc = "listen"]
                ELSE [gw EXCEPT !.dialled = TRUE, !.pc = "exited", !.exit = 1,
                                !.why = "connect"]
    /\ UNCHANGED <<hVars, aVars, gwInbox, inbox, upsets, injected, ag>>

\* part_010 304-343: register the handler and serve; ListenAndServe comes back
\* only with an error, and Execute then returns 1.
GatewayListen ==
    /\ gw.pc = "listen"
    /\ \E ok \in BOOLEAN :
          gw' = IF ok
                THEN [gw EXCEPT !.listened = TRUE, !.pc = "serving"]
                ELSE [gw EXCEPT !.listened = TRUE, !.pc = "exited", !.exit = 1,
                                !.why = "listen"]
    /\ UNCHANGED <<hVars, aVars, gwInbox, inbox, upsets, injected, ag>>

\* cmd_client.go 238-291: return 1 unless expose and tunnel are given, else set the
\* client up: the name is the one given or, when none is, a fresh UUID, and it is
\* the client id too.  Before it, a variant that does not look at tunnel.
AgentStartNoTunnelTest(a) ==
    /\ ag[a].pc = "start"
    /\ \E uid \in Uuids :
          ag' = IF ag[a].expose = <<>>
                THEN [ag EXCEPT ![a].pc = "exited", ![a].exit = 1, ![a].why = "args"]
                ELSE LET name == IF ag[a].name = <<>> THEN uid ELSE ag[a].name
                     IN  [ag EXCEPT ![a].pc = "connect", ![a].name = name, ![a].id = name]
    /\ UNCHANGED <<hVars, aVars, gwInbox, inbox, upsets, injected, gw>>

AgentStart(a) ==
    /\ ag[a].pc = "start"
    /\ \E uid \in Uuids :
          ag' = IF ag[a].expose = <<>> \/ ag[a].tunnel = <<>>
                THEN [ag EXCEPT ![a].pc = "exited", ![a].exit = 1, ![a].why = "args"]
                ELSE LET name == IF ag[a].name = <<>> THEN uid ELSE ag[a].name
                     IN  [ag EXCEPT ![a].pc = "connect", ![a].name = name, ![a].id = name]
    /\ UNCHANGED <<hVars, aVars, gwInbox, inbox, upsets, injected, gw>>

\* cmd_client.go 293-300: connect to the broker, or return 1.
AgentConnect(a) ==
    /\ ag[a].pc = "connect"
    /\ \E ok \in BOOLEAN :
          ag' = IF ok
                THEN [ag EXCEPT ![a].dialled = TRUE, ![a].up = TRUE, ![a].conns = 1,
                                ![a].pc = "connected"]
                ELSE [ag EXCEPT ![a].dialled = TRUE, ![a].pc = "exited", ![a].exit = 1,
                                ![a].why = "connect"]
    /\ UNCHANGED <<hVars, aVars, gwInbox, inbox, upsets, injected, gw>>

\* How many connections to the broker an agent has in one run.
MaxConnects == 3

\* The agent's connection to the broker is lost.  The client's options are the
\* defaults but for the id and OnConnect (cmd_client.go 273-291): the session is a
\* clean one, so the broker forgets the subscription, and the client goes on to
\* reconnect by itself.
ConnectionLost(a) ==
    /\ ag[a].pc = "connected"
    /\ ag[a].up
    /\ ag[a].conns < MaxConnects
    /\ ag' = [ag EXCEPT ![a].up = FALSE]
    /\ subscribed' = [subscribed EXCEPT ![a] = FALSE]
    /\ UNCHANGED <<apc, req, stats, requests, logged, answer, taken, log, tui, inbox,
                   gwInbox, upsets, injected, gw>>
    /\ UNCHANGED hVars

\* The client has the connection again: one more OnConnect call is due.
Reconnect(a) ==
    /\ ag[a].pc = "connected"
    /\ ~ag[a].up
    /\ ag' = [ag EXCEPT ![a].up = TRUE, ![a].conns = @ + 1]
    /\ UNCHANGED <<hVars, aVars, gwInbox, inbox, upsets, injected, gw>>

\* ---------------------------------------------------------------- other broker clients

\* How many payloads other clients publish in one run.
MaxInject == 3

\* What another client may publish on an agent's topic (the broker lets any client
\* read and write under clients/): an envelope, an object without fields, bytes
\* that are no JSON, a response, the marker alone.
ProbeEnvelope ==
    Envelope([Host |-> <<"a", ".", "t", ".", "example">>, Path |-> "probe",
              XFF |-> <<>>, RemoteAddr |-> PeerAddr])
InjectPayloads ==
    {ProbeEnvelope, <<"{", "}">>, <<"not", " ", "json">>, Marker \o OkReply, Marker}

\* The names the model gives those payloads, in the order of their publication.
InjectIds == <<"i1", "i2", "i3", "i4", "i5", "i6", "i7", "i8">>

\* One payload of the given set, published by another client on an agent's topic,
\* while fewer than max have been published.
InjectFrom(a, payloads, max) ==
    /\ injected < max
    /\ injected' = injected + 1
    /\ \E payload \in payloads :
          Forward(Topic(AgentName(a)), [payload |-> payload, re |-> InjectIds[injected + 1]])
    /\ UNCHANGED <<subscribed, apc, req, stats, requests, logged, answer, taken, log, tui,
                   upsets>>
    /\ UNCHANGED <<hVars, gw, ag>>

Inject(a) == InjectFrom(a, InjectPayloads, MaxInject)

\* A longer run of payloads, all of them envelopes: enough of them to fill the
\* agent's list of recent requests and to push its oldest entry out.
MaxEnvelopes == 6
EnvelopePayloads == {ProbeEnvelope, <<"{", "}">>}
InjectEnvelope(a) == InjectFrom(a, EnvelopePayloads, MaxEnvelopes)

\* ---------------------------------------------------------------- the system

Next ==
    \/ \E h \in Handlers : Receive(h)
    \/ \E h \in Handlers : Publish(h)
    \/ \E h \in Handlers : Subscribe(h)
    \/ Dispatch
    \/ \E h \in Handlers : Poll(h)
    \/ \E h \in Handlers : Unsubscribe(h)
    \/ \E h \in Handlers : Check(h)
    \/ \E h \in Handlers : Hijack(h)
    \/ \E h \in Handlers : Write(h)
    \/ \E h \in Handlers : FlushClose(h)
    \/ \E a \in Agents : OnConnect(a)
    \/ \E a \in Agents : OnMessage(a)
    \/ \E a \in Agents : Fetch(a)

Spec == Init /\ [][Next]_vars

\* The steps of one handler's goroutine once its request has arrived, and those of
\* an agent's callbacks.
HandlerStep(h) ==
    \/ Publish(h) \/ Subscribe(h) \/ Poll(h) \/ Unsubscribe(h)
    \/ Check(h) \/ Hijack(h) \/ Write(h) \/ FlushClose(h)
AgentStep(a) == OnConnect(a) \/ OnMessage(a) \/ Fetch(a)

\* The request of the first caller.
ReceiveFirst(h) == Earlier(h) = {} /\ Receive(h)

\* The gateway with one request, and whatever any other client, an agent or not,
\* publishes on the topic of label a, under the scheduling of the gateway's
\* runtime: a goroutine that can take a step takes one in the end, the handler's
\* and the broker client's.  Nothing is asked of the caller or of the other clients.
NextGateway ==
    \/ \E h \in Handlers : ReceiveFirst(h)
    \/ \E h \in Handlers : Publish(h)
    \/ \E h \in Handlers : Subscribe(h)
    \/ Dispatch
    \/ \E h \in Handlers : Poll(h)
    \/ \E h \in Handlers : Unsubscribe(h)
    \/ \E h \in Handlers : Check(h)
    \/ \E h \in Handlers : Hijack(h)
    \/ \E h \in Handlers : Write(h)
    \/ \E h \in Handlers : FlushClose(h)
    \/ \E a \in Agents : Inject(a)

SpecGateway ==
    /\ Init /\ [][NextGateway]_vars
    /\ \A h \in Handlers : WF_vars(HandlerStep(h))
    /\ WF_vars(Dispatch)

\* The relay of one request under the scheduling of both runtimes: the agent's
\* callbacks run too.
NextFair ==
    \/ \E h \in Handlers : ReceiveFirst(h)
    \/ \E h \in Handlers : Publish(h)
    \/ \E h \in Handlers : Subscribe(h)
    \/ Dispatch
    \/ \E h \in Handlers : Poll(h)
    \/ \E h \in Handlers : Unsubscribe(h)
    \/ \E h \in Handlers : Check(h)
    \/ \E h \in Handlers : Hijack(h)
    \/ \E h \in Handlers : Write(h)
    \/ \E h \in Handlers : FlushClose(h)
    \/ \E a \in Agents : OnConnect(a)
    \/ \E a \in Agents : OnMessage(a)
    \/ \E a \in Agents : Fetch(a)

SpecFair ==
    /\ Init /\ [][NextFair]_vars
    /\ \A h \in Handlers : WF_vars(HandlerStep(h))
    /\ WF_vars(Dispatch)
    /\ \A a \in Agents : WF_vars(AgentStep(a))

\* One agent and the other clients of its topic, no gateway.
NextAgent ==
    \/ \E a \in Agents : OnConnect(a)
    \/ \E a \in Agents : Inject(a)
    \/ \E a \in Agents : OnMessage(a)
    \/ \E a \in Agents : Fetch(a)

SpecAgent == Init /\ [][NextAgent]_vars

\* The handler's way from a request of the wider input space to its envelope and
\* its subscription, and the agent's decode of the envelope.
NextRequests ==
    \/ \E h \in Handlers : ReceiveAny(h)
    \/ \E h \in Handlers : Publish(h)
    \/ \E h \in Handlers : Subscribe(h)
    \/ \E a \in Agents : OnConnect(a)
    \/ \E a \in Agents : OnMessage(a)

SpecRequests == Init /\ [][NextRequests]_vars

\* One agent and a run of envelopes published on its topic.
NextRecent ==
    \/ \E a \in Agents : OnConnect(a)
    \/ \E a \in Agents : InjectEnvelope(a)
    \/ \E a \in Agents : OnMessage(a)
    \/ \E a \in Agents : Fetch(a)

SpecRecent == Init /\ [][NextRecent]_vars

\* The relay with the dispatch in its two halves, up to the handler's test of its
\* mailbox after the unsubscribe.
NextRace ==
    \/ \E h \in Handlers : Receive(h)
    \/ \E h \in Handlers : Publish(h)
    \/ \E h \in Handlers : Subscribe(h)
    \/ CallbackEnter
    \/ CallbackStore
    \/ \E h \in Handlers : Poll(h)
    \/ \E h \in Handlers : Unsubscribe(h)
    \/ \E h \in Handlers : Check(h)
    \/ \E a \in Agents : OnConnect(a)
    \/ \E a \in Agents : OnMessage(a)
    \/ \E a \in Agents : Fetch(a)

SpecRace == Init /\ [][NextRace]_vars

\* The relay of one request with the dispatch in its two halves, up to the
\* handler's return.
NextLate ==
    \/ \E h \in Handlers : ReceiveFirst(h)
    \/ \E h \in Handlers : Publish(h)
    \/ \E h \in Handlers : Subscribe(h)
    \/ CallbackEnter
    \/ CallbackStore
    \/ \E h \in Handlers : Poll(h)
    \/ \E h \in Handlers : Unsubscribe(h)
    \/ \E h \in Handlers : Check(h)
    \/ \E h \in Handlers : Hijack(h)
    \/ \E h \in Handlers : Write(h)
    \/ \E h \in Handlers : FlushClose(h)
    \/ \E a \in Agents : OnConnect(a)
    \/ \E a \in Agents : OnMessage(a)
    \/ \E a \in Agents : Fetch(a)

SpecLate == Init /\ [][NextLate]_vars

\* One agent with its display, and the other clients of its topic.
NextTui ==
    \/ \E a \in Agents : OnConnect(a)
    \/ \E a \in Agents : Inject(a)
    \/ \E a \in Agents : OnMessage(a)
    \/ \E a \in Agents : Fetch(a)
    \/ \E a \in Agents : Key(a)
    \/ \E a \in Agents : Tick(a)
    \/ \E a \in Agents : Table(a)

SpecTui == Init /\ [][NextTui]_vars

\* The way of an envelope: from a request of the wider input space to the agent's
\* decode, fetch, record and reply.
NextEnvelope ==
    \/ \E h \in Handlers : ReceiveAny(h)
    \/ \E h \in Handlers : Publish(h)
    \/ \E a \in Agents : OnConnect(a)
    \/ \E a \in Agents : OnMessage(a)
    \/ \E a \in Agents : Fetch(a)

SpecEnvelope == Init /\ [][NextEnvelope]_vars

\* The two processes from the entry of Execute to their first steps of service.
NextStart ==
    \/ GatewayConnect
    \/ GatewayListen
    \/ \E h \in Handlers : Receive(h)
    \/ \E a \in Agents : AgentStart(a)
    \/ \E a \in Agents : AgentConnect(a)
    \/ \E a \in Agents : OnConnect(a)

SpecStart == InitStart /\ [][NextStart]_vars

\* An agent from the entry of Execute on, with a connection that comes and goes,
\* and the other clients of its topic.
NextLife ==
    \/ \E a \in Agents : AgentStart(a)
    \/ \E a \in Agents : AgentConnect(a)
    \/ \E a \in Agents : OnConnect(a)
    \/ \E a \in Agents : ConnectionLost(a)
    \/ \E a \in Agents : Reconnect(a)
    \/ \E a \in Agents : Inject(a)
    \/ \E a \in Agents : OnMessage(a)
    \/ \E a \in Agents : Fetch(a)

SpecLife == InitStart /\ [][NextLife]_vars

\* ---------------------------------------------------------------- what the claims speak of

\* The two 503 bodies the claims name: the gateway's, whose explanatory line is
\* "We didn't receive a reply from the remote host, despite waiting 10 seconds."
\* and which a newline closes, and the agent's, "The remote server was unreachable.".
Timeout503 ==
    <<"HTTP/1.0", " ", "503", " ", "OK", "\n",
      "Content-type:", " ", "text/html;", " ", "charset=UTF-8", "\n",
      "Connection:", " ", "close", "\n\n",
      "<!DOCTYPE", " ", "html>", "\n<html>\n<body>\n",
      "<p>We", " ", "didn't", " ", "receive", " ", "a", " ", "reply", " ", "from", " ",
      "the", " ", "remote", " ", "host,", " ", "despite", " ", "waiting", " ", "10", " ",
      "seconds.</p>", "\n</body>\n</html>\n">>
Unreachable503 ==
    <<"HTTP/1.0", " ", "503", " ", "OK", "\n",
      "Content-type:", " ", "text/html;", " ", "charset=UTF-8", "\n",
      "Connection:", " ", "close", "\n\n",
      "<!DOCTYPE", " ", "html>", "\n<html>\n<body>\n",
      "<p>The", " ", "remote", " ", "server", " ", "was", " ", "unreachable.</p>",
      "\n</body>\n</html>">>

\* A payload begins with the two marker bytes; the bytes after them.
Marked(payload) == Len(payload) >= 2 /\ payload[1] = "X" /\ payload[2] = "-"
AfterMarker(payload) == SubSeq(payload, 3, Len(payload))

\* What precedes the first c in s; s itself when it holds no c.
Before(s, c) ==
    IF \E i \in 1..Len(s) : s[i] = c
    THEN SubSeq(s, 1, (CHOOSE i \in 1..Len(s) : s[i] = c /\ \A j \in 1..(i - 1) : s[j] # c) - 1)
    ELSE s

\* The label of a request, the first component of its Host (empty before the
\* request has arrived), and its topic, clients/ and the label.
LabelOf(h) == Before(r[h].Host, ".")
TopicOf(h) == <<"clients/">> \o LabelOf(h)
NameTopic(a) == <<"clients/">> \o AgentName(a)

\* No other request for h's label has arrived.
Alone(h) == \A g \in Handlers \ {h} : pc[g] = "idle" \/ LabelOf(g) # LabelOf(h)

\* The handler was served on its hijacked connection.
Served(h) == pc[h] = "done" /\ conn[h] = "closed"

\* An agent has published a non-empty response in reply to h's envelope.
Replied(h) == answer[h].by # None /\ Len(answer[h].payload) > 2

\* The next payload of agent a, when its callback is free to take one.
Next1(a) == Head(inbox[a]).payload
Taking(a) == apc[a] = "idle" /\ inbox[a] # <<>> /\ inbox'[a] = Tail(inbox[a])

\* ---------------------------------------------------------------- C1

\* C1: round-trip fidelity.  When an agent has published a non-empty response R in
\* reply to the envelope of a request that is alone on its label, and no forwarded
\* message waits for dispatch, a handler still waiting has exactly R in its
\* mailbox, and a caller served has received exactly R.
C1_RoundTrip ==
    \A h \in Handlers :
        (Alone(h) /\ Replied(h) /\ gwInbox = <<>>) =>
            /\ pc[h] = "poll" => response[h] = AfterMarker(answer[h].payload)
            /\ Served(h) => sock[h] = AfterMarker(answer[h].payload)

\* ---------------------------------------------------------------- C2

C3_Isolation ==
    \A h \in Handlers :
        /\ \A t \in DOMAIN route : route[t] = h => t = TopicOf(h)
        /\ \A i \in 1..Len(gwInbox) :
              (gwInbox[i].re = h /\ ~Marked(gwInbox[i].payload))
                  => gwInbox[i].topic = TopicOf(h)
        /\ \A a \in Agents :
              /\ \A i \in 1..Len(inbox[a]) :
                    (inbox[a][i].re = h /\ ~Marked(inbox[a][i].payload))
                        => NameTopic(a) = TopicOf(h)
              /\ req[a].re = h => NameTopic(a) = TopicOf(h)
              /\ answer[h].by = a => NameTopic(a) = TopicOf(h)

C3_Witness ==
    \E h, g \in Handlers :
        /\ r[h].Host = <<"b">> /\ sent[h] = "ok" /\ Served(h)
        /\ LabelOf(g) = <<"a">> /\ answer[g].by = "A1"

\* ---------------------------------------------------------------- C4

\* C4: echo suppression.  A step in which an agent takes a payload that begins with
\* the marker starts no fetch, publishes nothing, prints no decode failure and
\* leaves the counters and the recent requests as they were.
C4_EchoSuppression ==
    [][\A a \in Agents :
          (Taking(a) /\ Marked(Next1(a))) =>
              /\ apc'[a] = "idle"
              /\ UNCHANGED <<req, stats, requests, logged, answer, gwInbox>>]_vars

C4_Witness ==
    \E a \in Agents, h \in Handlers :
        /\ answer[h].by = a /\ Replied(h)
        /\ inbox[a] = <<>> /\ apc[a] = "idle"
        /\ Len(requests[a]) = 1 /\ ~logged[a]

\* ---------------------------------------------------------------- C5

\* C5: marker filtering at the gateway.  While a handler is subscribed its mailbox
\* changes only in a dispatch of a payload that begins with the marker, to that
\* payload less its two marker bytes; a dispatch of any other payload changes no
\* mailbox; and what a caller is served is the timeout body or a published
\* response less its marker, never an envelope.
C5_MarkerFiltering ==
    /\ [][\A h \in Handlers :
            (pc[h] \in {"poll", "unsub"} /\ response'[h] # response[h]) =>
                /\ gwInbox # <<>> /\ gwInbox' = Tail(gwInbox)
                /\ Marked(Head(gwInbox).payload)
                /\ response'[h] = AfterMarker(Head(gwInbox).payload)]_vars
    /\ [][(gwInbox # <<>> /\ gwInbox' = Tail(gwInbox) /\ ~Marked(Head(gwInbox).payload))
            => response' = response]_vars
    /\ [](\A h \in Handlers :
            \/ sock[h] \in {<<>>, Timeout503}
            \/ \E g \in Handlers :
                  Replied(g) /\ sock[h] = AfterMarker(answer[g].payload))

C5_Witness ==
    \E h \in Handlers :
        /\ pc[h] = "poll" /\ Replied(h) /\ response[h] = AfterMarker(answer[h].payload)
        /\ gwInbox # <<>> /\ Head(gwInbox).payload[1] = "{"
        /\ route[Head(gwInbox).topic] = h

\* ---------------------------------------------------------------- C6

\* C6: unreachable upstream.  When the agent has answered the envelope of a request
\* (alone on its label) with the marker and the 503 unreachable body, and no
\* forwarded message waits for dispatch, a handler still waiting has that body in
\* its mailbox and a caller served has received it.
C6_Unreachable ==
    \A h \in Handlers :
        (Alone(h) /\ answer[h].payload = <<"X", "-">> \o Unreachable503 /\ gwInbox = <<>>) =>
            /\ pc[h] = "poll" => response[h] = Unreachable503
            /\ Served(h) => sock[h] = Unreachable503

\* ---------------------------------------------------------------- C7

\* C7: malformed envelope.  A step in which an agent takes a payload that neither
\* begins with the marker nor is a JSON object prints the decode failure and does
\* nothing else: no fetch is started, nothing is published, the counters and the
\* recent requests stay, and the callback is free for the next payload.
IsObject(payload) ==
    Len(payload) >= 2 /\ payload[1] = "{" /\ payload[Len(payload)] = "}"

C7_Malformed ==
    [][\A a \in Agents :
          (Taking(a) /\ ~Marked(Next1(a)) /\ ~IsObject(Next1(a))) =>
              /\ apc'[a] = "idle"
              /\ logged'[a]
              /\ UNCHANGED <<req, stats, requests, answer, gwInbox>>]_vars

C7_Witness ==
    \E a \in Agents :
        /\ logged[a] /\ apc[a] = "fetch" /\ requests[a] = <<>> /\ stats[a] = <<>>

\* ---------------------------------------------------------------- C8

\* No agent of the handler's label is subscribed.
Offline(h) == \A a \in Agents : NameTopic(a) = TopicOf(h) => ~subscribed[a]

\* C8: offline agent.  A handler that returns without having met an error, while no
\* agent of its label is subscribed, has waited the loop out, has served the 503
\* timeout body, has published once, was answered by nobody, and is not the holder
\* of a subscription; alone on its label, it leaves the topic without a route.
C8_OfflineAgent ==
    \A h \in Handlers :
        (pc[h] = "done" /\ wcode[h] = "none" /\ Offline(h)) =>
            /\ exit[h] = "timeout"
            /\ Served(h) /\ sock[h] = Timeout503
            /\ npub[h] = 1
            /\ answer[h] = NoAnswer
            /\ \A t \in DOMAIN route : route[t] # h
            /\ Alone(h) => route[TopicOf(h)] = None

C8_Witness ==
    \E h \in Handlers :
        /\ r[h].Host = <<"b">> /\ pc[h] = "done" /\ wcode[h] = "none"
        /\ sent[h] = "ok" /\ sock[h] = Timeout503 /\ route[<<"clients/", "b">>] = None

\* ---------------------------------------------------------------- C9

\* C9: no hijack leak.  A handler that has returned holds no open hijacked
\* connection: one it hijacked is closed, with its buffer flushed to the socket.
C9_NoHijackLeak ==
    \A h \in Handlers :
        pc[h] = "done" =>
            /\ conn[h] # "open"
            /\ bufrw[h] = <<>>
            /\ conn[h] = "closed" => sock[h] = response[h]

C9_Witness == \E h \in Handlers : Served(h) /\ sock[h] # <<>>

\* ---------------------------------------------------------------- C10

\* C10: same-label race.  A response goes to the handler whose callback is the
\* route of its topic when it is dispatched, whichever request it answers; so a
\* mailbox holds the response to another caller's request only when both requests
\* are for one label ...
C10_CrossOnlyWithinLabel ==
    /\ [](\A h \in Handlers :
            (from[h] \in Handlers \ {h}) => LabelOf(from[h]) = LabelOf(h))
    /\ [][\A h \in Handlers :
            from'[h] # from[h] =>
                /\ gwInbox # <<>>
                /\ route[Head(gwInbox).topic] = h
                /\ from'[h] = Head(gwInbox).re]_vars

\* ... and it does happen: one caller is served the response the agent produced for
\* the other's request, and the other is served the 503 timeout body.
C10_Witness ==
    \E h, g \in Handlers :
        /\ h # g
        /\ Served(h) /\ from[h] = g /\ Replied(g)
        /\ sock[h] = AfterMarker(answer[g].payload)
        /\ Served(g) /\ sock[g] = Timeout503
\* ---------------------------------------------------------------- C11

\* s without the spaces around it.
Trimmed(s) ==
    LET solid == {i \in 1..Len(s) : s[i] # " "}
    IN  IF solid = {} THEN <<>>
        ELSE SubSeq(s, CHOOSE i \in solid : \A j \in solid : i <= j,
                       CHOOSE i \in solid : \A j \in solid : i >= j)

\* A peer address without its port, and without the brackets of an IPv6 host.
PeerNoPort(addr) ==
    LET colons == {i \in 1..Len(addr) : addr[i] = ":"}
        last == CHOOSE i \in colons : \A j \in colons : i >= j
        hostpart == SubSeq(addr, 1, last - 1)
    IN  IF hostpart # <<>> /\ hostpart[1] = "[" /\ hostpart[Len(hostpart)] = "]"
        THEN SubSeq(hostpart, 2, Len(hostpart) - 1)
        ELSE hostpart

\* The Source the claim gives a request.
SourceOf(h) ==
    IF r[h].XFF # <<>>
    THEN Before(Trimmed(Before(r[h].XFF, ",")), ":")
    ELSE PeerNoPort(r[h].RemoteAddr)

\* The chunks of an envelope between its Source key and its Response key.
SourceIn(payload) ==
    LET from1 == CHOOSE i \in 1..Len(payload) : payload[i] = "Source"
        to1 == CHOOSE i \in 1..Len(payload) : payload[i] = "Response"
    IN  SubSeq(payload, from1 + 1, to1 - 1)

\* C11: source-IP extraction.  The Source of every envelope forwarded to an agent,
\* and of every envelope an agent has decoded, is the first comma-separated entry
\* of the request's X-Forwarded-For, trimmed and cut at its first ":", when the
\* header is there and not empty, and otherwise the peer address without its port.
C11_SourceIP ==
    \A a \in Agents :
        /\ \A i \in 1..Len(inbox[a]) :
              (inbox[a][i].re \in Handlers /\ ~Marked(inbox[a][i].payload))
                  => SourceIn(inbox[a][i].payload) = SourceOf(inbox[a][i].re)
        /\ req[a].re \in Handlers => req[a].Source = SourceOf(req[a].re)

C11_Witness ==
    \E a \in Agents, h \in Handlers :
        /\ r[h].XFF = <<"10.0.0.5", ",", " ", "1.2.3.4">>
        /\ req[a].re = h /\ req[a].Source = <<"10.0.0.5">>

\* ---------------------------------------------------------------- C12

\* C12: label derivation.  The label of a request that has arrived is what precedes
\* the first "." of its Host, or the whole Host when it holds none; the handler
\* subscribes to clients/ and that label, and its envelope reaches an agent only of
\* that name; two requests whose Hosts agree up to the first "." use one topic.
C12_LabelDerivation ==
    \A h \in Handlers :
        /\ pc[h] # "idle" => host[h] = Before(r[h].Host, ".")
        /\ \A t \in DOMAIN route : route[t] = h => t = <<"clients/">> \o Before(r[h].Host, ".")
        /\ \A a \in Agents : \A i \in 1..Len(inbox[a]) :
              inbox[a][i].re = h => AgentName(a) = Before(r[h].Host, ".")
        /\ \A g \in Handlers :
              (pc[h] # "idle" /\ pc[g] # "idle"
                  /\ Before(r[h].Host, ".") = Before(r[g].Host, "."))
                  => Topic(host[h]) = Topic(host[g])

C12_Witness ==
    \E h, g \in Handlers :
        /\ r[h].Host = <<"a">> /\ r[g].Host = <<"a", ".", "other">>
        /\ host[h] = <<"a">> /\ host[g] = <<"a">>
        /\ pc[h] = "poll" /\ route[<<"clients/", "a">>] = g
\* ---------------------------------------------------------------- C13

\* C13: broker errors are fatal.  A process whose broker connect failed has exited
\* with status 1, an agent whose subscribe failed has exited with status 1, and a
\* gateway one of whose handlers has answered a failed subscribe has exited with
\* status 1.
C13_BrokerErrorsFatal ==
    /\ (gw.dialled /\ ~gw.up) => (gw.pc = "exited" /\ gw.exit = 1)
    /\ \A a \in Agents :
          /\ (ag[a].dialled /\ ~ag[a].up) => (ag[a].pc = "exited" /\ ag[a].exit = 1)
          /\ ag[a].why = "subscribe" => (ag[a].pc = "exited" /\ ag[a].exit = 1)
    /\ \A h \in Handlers :
          wcode[h] = "subscribe" => (gw.pc = "exited" /\ gw.exit = 1)

\* ---------------------------------------------------------------- C14

\* C14: publish failure.  The handler publishes once, whatever the outcome; the step
\* of a failed publish leads on to the subscribe; and a handler whose publish failed,
\* whose mailbox no response has reached and which met no further error has waited
\* the loop out, has unsubscribed and has served the 503 timeout body.
C14_PublishFailure ==
    /\ [](\A h \in Handlers :
            /\ npub[h] <= 1
            /\ (sent[h] = "lost" /\ pc[h] = "done" /\ wcode[h] = "none" /\ from[h] = None) =>
                  /\ exit[h] = "timeout"
                  /\ Served(h) /\ sock[h] = Timeout503
                  /\ \A t \in DOMAIN route : route[t] # h)
    /\ [][\A h \in Handlers :
            (sent[h] = "none" /\ sent'[h] = "lost") =>
                (pc'[h] = "subscribe" /\ wcode'[h] = "none")]_vars

C14_Witness ==
    \E h \in Handlers, a \in Agents :
        /\ sent[h] = "lost" /\ npub[h] = 1
        /\ subscribed[a] /\ AgentName(a) = LabelOf(h)
        /\ exit[h] = "timeout" /\ Served(h) /\ sock[h] = Timeout503

\* ---------------------------------------------------------------- C15

\* C15: hijack failure.  A handler that answered 500 has returned with no hijacked
\* connection and with nothing written to the socket or left in a buffer; and the
\* step that answers 500 is the hijack step, taken when the handler's subscription
\* is gone already.
C15_HijackFailure ==
    /\ [](\A h \in Handlers :
            wcode[h] = "500" =>
                /\ pc[h] = "done"
                /\ conn[h] = "none" /\ sock[h] = <<>> /\ bufrw[h] = <<>>
                /\ \A t \in DOMAIN route : route[t] # h)
    /\ [][\A h \in Handlers :
            (wcode[h] # "500" /\ wcode'[h] = "500") =>
                /\ exit[h] \in {"reply", "timeout"}
                /\ \A t \in DOMAIN route : route[t] # h
                /\ route' = route]_vars

C15_Witness ==
    \E h \in Handlers :
        /\ wcode[h] = "500" /\ pc[h] = "done"
        /\ Replied(h) /\ response[h] = AfterMarker(answer[h].payload)
        /\ sock[h] = <<>>

\* ---------------------------------------------------------------- C16

\* C16: envelope validation.  An agent in its fetch holds a Request that is not
\* empty, and every recent request it has recorded has one: a payload without the
\* Request field is dropped at the decode.
C16_EnvelopeValidation ==
    \A a \in Agents :
        /\ apc[a] = "fetch" => req[a].Request # <<>>
        /\ \A i \in 1..Len(requests[a]) : requests[a][i].Request # <<>>

\* ---------------------------------------------------------------- C17

\* C17: exit codes.  An agent started without expose or without tunnel exits with
\* status 1 in its first step, having tried no broker connection; an agent or a
\* gateway whose broker connect fails exits with status 1, the gateway without
\* having tried to listen; a gateway whose listener fails exits with status 1; and
\* no process exits with another status.
C17_ExitCodes ==
    /\ [][\A a \in Agents :
            (ag[a].pc = "start" /\ ag'[a] # ag[a]
                /\ (ag[a].expose = <<>> \/ ag[a].tunnel = <<>>)) =>
                (ag'[a].pc = "exited" /\ ag'[a].exit = 1 /\ ~ag'[a].dialled)]_vars
    /\ [][\A a \in Agents :
            (~ag[a].dialled /\ ag'[a].dialled /\ ~ag'[a].up) =>
                (ag'[a].pc = "exited" /\ ag'[a].exit = 1)]_vars
    /\ [][(~gw.dialled /\ gw'.dialled /\ ~gw'.up) =>
            (gw'.pc = "exited" /\ gw'.exit = 1 /\ ~gw'.listened)]_vars
    /\ [][(~gw.listened /\ gw'.listened /\ gw'.pc # "serving") =>
            (gw'.pc = "exited" /\ gw'.exit = 1)]_vars
    /\ [](/\ gw.listened => gw.up
          /\ gw.pc = "exited" <=> gw.exit = 1
          /\ gw.exit \in {-1, 1}
          /\ \A a \in Agents :
                /\ ag[a].dialled => (ag[a].expose # <<>> /\ ag[a].tunnel # <<>>)
                /\ ag[a].pc = "exited" <=> ag[a].exit = 1
                /\ ag[a].exit \in {-1, 1})

C17_Witness ==
    \E a \in Agents :
        /\ ag[a].tunnel = <<>> /\ ag[a].expose # <<>>
        /\ ag[a].pc = "exited" /\ ag[a].exit = 1 /\ ~ag[a].dialled
        /\ gw.listened /\ gw.pc = "exited" /\ gw.exit = 1

\* ---------------------------------------------------------------- C18

\* No agent bears the label of the request.
NoAgentNamed(h) == \A a \in Agents : AgentName(a) # LabelOf(h)

C19_SubscribeFirst ==
    \A h \in Handlers :
        (Alone(h) /\ sent[h] # "none" /\ exit[h] = None /\ wcode[h] = "none") =>
            route[TopicOf(h)] = h

\* ---------------------------------------------------------------- C20

\* C20: unsubscribe regardless of outcome.  The wait loop is left only for the
\* unsubscribe, with a response or without; the unsubscribe leaves the topic without
\* a route and comes while nothing is hijacked or written; so a handler that has a
\* hijacked connection, has written to its caller or has answered 500 has ended its
\* wait and holds no route.
C20_UnsubscribeAlways ==
    /\ [][\A h \in Handlers :
            (pc[h] = "poll" /\ pc'[h] # "poll") => pc'[h] = "unsub"]_vars
    /\ [][\A h \in Handlers :
            (pc[h] = "unsub" /\ pc'[h] # "unsub") =>
                /\ route'[TopicOf(h)] = None
                /\ conn[h] = "none" /\ sock[h] = <<>> /\ bufrw[h] = <<>>]_vars
    /\ [](\A h \in Handlers :
            (conn[h] # "none" \/ sock[h] # <<>> \/ bufrw[h] # <<>> \/ wcode[h] = "500") =>
                /\ exit[h] \in {"reply", "timeout"}
                /\ \A t \in DOMAIN route : route[t] # h)

C20_Witness ==
    \E h, g \in Handlers :
        /\ exit[h] = "reply" /\ Served(h) /\ sock[h] = AfterMarker(answer[h].payload)
        /\ exit[g] = "timeout" /\ Served(g) /\ sock[g] = Timeout503
        /\ \A t \in DOMAIN route : route[t] = None

\* ---------------------------------------------------------------- C21

\* The last element of a non-empty sequence.
Last(q) == q[Len(q)]

\* Agent a returns from the onMessage call that was past its decode.
Finishing(a) == apc[a] = "fetch" /\ apc'[a] = "idle"

\* C21: one reply per request.  Every payload an agent takes that does not begin
\* with the marker and decodes as JSON is taken on to the fetch; when its handling
\* finishes, the agent has published exactly one message for it, on clients/<name>,
\* made of the marker and the response bytes: what was read from the exposed
\* service, or the 503 fallback body when the dial failed.  The agent publishes
\* at no other step, so publications and finished handlings are equal in number.
C21_OneReply ==
    /\ [](\A a \in Agents :
            /\ Len(log[a]) + (IF apc[a] = "idle" THEN 0 ELSE 1) = Len(taken[a])
            /\ \A i \in 1..Len(log[a]) :
                  /\ log[a][i].topic = NameTopic(a)
                  /\ Marked(log[a][i].payload)
                  /\ AfterMarker(log[a][i].payload) =
                        IF log[a][i].dialled THEN log[a][i].result ELSE Unreachable503
                  /\ log[a][i].re = taken[a][i].re)
    /\ [][\A a \in Agents :
            /\ (Taking(a) /\ ~Marked(Next1(a)) /\ IsObject(Next1(a))) =>
                  /\ apc'[a] = "fetch"
                  /\ taken'[a] = Append(taken[a], Head(inbox[a]))
            /\ Finishing(a) =>
                  /\ Len(log'[a]) = Len(log[a]) + 1
                  /\ inbox'[a] = Append(inbox[a], [payload |-> Last(log'[a]).payload,
                                                   re |-> req[a].re])
            /\ ~Finishing(a) =>
                  /\ log'[a] = log[a]
                  /\ Len(inbox'[a]) > Len(inbox[a]) => injected' = injected + 1]_vars

\* An agent has handled two envelopes, one with the service answering and one with
\* the dial failing, and has published one reply for each.
C21_Witness ==
    \E a \in Agents :
        /\ apc[a] = "idle" /\ Len(taken[a]) = 2 /\ Len(log[a]) = 2
        /\ \E i, j \in 1..2 :
              /\ log[a][i].dialled /\ log[a][i].payload = <<"X", "-">> \o OkReply
              /\ ~log[a][j].dialled /\ log[a][j].payload = <<"X", "-">> \o Unreachable503

\* ---------------------------------------------------------------- C22

\* q is p, or p with more at its end.
Extends(q, p) == Len(q) >= Len(p) /\ SubSeq(q, 1, Len(p)) = p

\* C22: serial agent.  An agent has at most one payload in handling; while it has
\* one, it takes no other (the payloads delivered meanwhile wait, in their order);
\* it takes the payloads oldest first, so its responses are published in the order
\* in which their envelopes were delivered; and once a fetch waits on a service that
\* never closes the connection, the agent takes and publishes nothing any more.
C22_SerialAgent ==
    /\ [](\A a \in Agents :
            /\ Len(taken[a]) - Len(log[a]) \in {0, 1}
            /\ Len(taken[a]) - Len(log[a]) = 1 <=> apc[a] \in {"fetch", "hung"}
            /\ \A i \in 1..Len(log[a]) : log[a][i].re = taken[a][i].re)
    /\ [][\A a \in Agents :
            /\ apc[a] # "idle" =>
                  /\ taken'[a] = taken[a]
                  /\ Extends(inbox'[a], inbox[a])
            /\ taken'[a] # taken[a] =>
                  /\ inbox[a] # <<>>
                  /\ taken'[a] = Append(taken[a], Head(inbox[a]))
                  /\ inbox'[a] = Tail(inbox[a])
            /\ apc[a] = "hung" =>
                  /\ apc'[a] = "hung"
                  /\ log'[a] = log[a]]_vars

\* An agent waits on a service that never closes the connection, after it has
\* answered one envelope, with another envelope delivered and waiting.
C22_Witness ==
    \E a \in Agents :
        /\ apc[a] = "hung" /\ Len(log[a]) = 1 /\ Len(taken[a]) = 2
        /\ \E i \in 1..Len(inbox[a]) :
              ~Marked(inbox[a][i].payload) /\ IsObject(inbox[a][i].payload)

\* ---------------------------------------------------------------- C23

\* Handler h is between its arrival and its return.
InFlight(h) == pc[h] \notin {"idle", "done"}

\* C23: no rejection or queueing per label.  Whatever the other handlers are doing,
\* a handler that has built its envelope can publish it, and one that has published
\* can subscribe; and no handler answers its caller with anything but the errors of
\* its own request (serialisation, subscribe, hijack).
C23_NoQueueing ==
    \A h \in Handlers :
        /\ pc[h] = "publish" => ENABLED Publish(h)
        /\ pc[h] = "subscribe" => ENABLED Subscribe(h)
        /\ wcode[h] \in {"none", "dump", "subscribe", "500"}

\* Two requests for one label are in flight at once, both published and both in
\* their wait loop.
C23_Witness ==
    \E h, g \in Handlers :
        /\ h # g /\ LabelOf(h) = LabelOf(g)
        /\ pc[h] = "poll" /\ pc[g] = "poll"
        /\ npub[h] = 1 /\ npub[g] = 1

\* ---------------------------------------------------------------- C24

\* C24: early completion.  The wait loop ends at the first poll that finds the
\* mailbox non-empty; a handler whose loop ended on a response serves its caller
\* that response, the one the poll found; and the 503 timeout body is served only
\* by a handler whose loop ended with the mailbox still empty.
C24_EarlyCompletion ==
    /\ [][\A h \in Handlers :
            (pc[h] = "poll" /\ response[h] # <<>> /\ <<pc[h], count[h]>>' # <<pc[h], count[h]>>)
                => pc'[h] = "unsub" /\ exit'[h] = "reply"]_vars
    /\ [](\A h \in Handlers :
            /\ (Served(h) /\ exit[h] = "reply") =>
                  /\ sock[h] = found[h].response
                  /\ from[h] = found[h].from
            /\ (Served(h) /\ sock[h] = Timeout503) => exit[h] = "timeout")

\* ---------------------------------------------------------------- C25

\* C25: no publish retry.  A handler publishes at most once: exactly once when its
\* request was serialised, and that before it subscribes, whether the publish
\* reached the broker or not and however its wait ends; a handler whose request
\* could not be serialised has returned without a publish and without a subscribe.
C25_NoPublishRetry ==
    /\ [](\A h \in Handlers :
            /\ npub[h] <= 1
            /\ (pc[h] \notin {"idle", "publish"} /\ wcode[h] # "dump") =>
                  npub[h] = 1 /\ sent[h] \in {"ok", "lost"}
            /\ wcode[h] = "dump" =>
                  /\ pc[h] = "done" /\ npub[h] = 0 /\ sent[h] = "none"
                  /\ exit[h] = "none" /\ conn[h] = "none"
                  /\ \A t \in DOMAIN route : route[t] # h)
    /\ [][\A h \in Handlers :
            /\ npub'[h] # npub[h] => pc[h] = "publish" /\ pc'[h] = "subscribe"
            /\ (\E t \in DOMAIN route : route'[t] = h /\ route[t] # h) => npub[h] = 1]_vars

\* A handler whose publish never reached the broker has waited the loop out and
\* served the timeout body, with one publish.
C25_Witness ==
    \E h \in Handlers :
        Served(h) /\ sent[h] = "lost" /\ npub[h] = 1 /\ exit[h] = "timeout"

\* ---------------------------------------------------------------- C26

\* The chunks of an envelope between its Request key and its Source key, and those
\* between its Response key and its closing brace.
RequestIn(payload) ==
    LET from1 == CHOOSE i \in 1..Len(payload) : payload[i] = "Request"
        to1 == CHOOSE i \in 1..Len(payload) : payload[i] = "Source"
    IN  SubSeq(payload, from1 + 1, to1 - 1)
ResponseIn(payload) ==
    LET from1 == CHOOSE i \in 1..Len(payload) : payload[i] = "Response"
    IN  SubSeq(payload, from1 + 1, Len(payload) - 1)

\* C26: envelope content.  The envelope a handler publishes is a JSON object whose
\* Request is not empty, whose Source follows the source-IP rule and whose
\* Response is empty, and it is forwarded as published; the agent decodes it with an
\* empty Response, fills the Response only in the copy it keeps in its recent
\* requests, and publishes nothing that is an envelope: every payload of an agent
\* is the marker and the result.
C26_EnvelopeContent ==
    /\ \A h \in Handlers :
          npub[h] > 0 =>
              /\ IsObject(toSend[h])
              /\ RequestIn(toSend[h]) # <<>>
              /\ SourceIn(toSend[h]) = SourceOf(h)
              /\ ResponseIn(toSend[h]) = <<>>
    /\ \A a \in Agents :
          /\ \A i \in 1..Len(inbox[a]) :
                inbox[a][i].re \in Handlers =>
                    \/ inbox[a][i].payload = toSend[inbox[a][i].re]
                    \/ Marked(inbox[a][i].payload)
          /\ apc[a] # "idle" => req[a].Response = <<>>
          /\ \A i \in 1..Len(log[a]) :
                /\ Marked(log[a][i].payload) /\ ~IsObject(log[a][i].payload)
                /\ AfterMarker(log[a][i].payload) = log[a][i].result
          /\ Len(requests[a]) = Len(log[a])
          /\ \A i \in 1..Len(requests[a]) :
                /\ requests[a][i].Response = log[a][i].result
                /\ log[a][i].re \in Handlers =>
                      /\ requests[a][i].Request = RequestIn(toSend[log[a][i].re])
                      /\ requests[a][i].Source = SourceOf(log[a][i].re)

\* An agent has answered the envelope of a request that came with two entries in
\* its X-Forwarded-For, and keeps the response in its copy alone.
C26_Witness ==
    \E a \in Agents, h \in Handlers :
        /\ r[h].XFF = <<"10.0.0.5", ",", " ", "1.2.3.4">>
        /\ npub[h] = 1 /\ ResponseIn(toSend[h]) = <<>>
        /\ Len(log[a]) = 1 /\ log[a][1].re = h
        /\ requests[a][1].Response = OkReply
        /\ requests[a][1].Source = <<"10.0.0.5">>

\* ---------------------------------------------------------------- C27

\* The request envelope of a finished handling, with its response filled in.
Handled(a, i) ==
    [Request |-> log[a][i].Request, Source |-> log[a][i].Source, Response |-> log[a][i].result]

\* The last min(n, 5) of the n envelopes agent a has handled, oldest first.
MostRecent(a) ==
    LET n == Len(log[a])
        k == IF n < 5 THEN n ELSE 5
    IN  [i \in 1..k |-> Handled(a, n - k + i)]

\* C27: bounded recent-requests list.  At every moment the list of an agent holds
\* at most 5 entries, and they are the most recent min(n, 5) of the n request
\* envelopes it has handled, in the order of their handling.
C27_RecentRequests ==
    \A a \in Agents :
        /\ Len(requests[a]) <= 5
        /\ requests[a] = MostRecent(a)

\* An agent has handled six envelopes and keeps the last five; the one it dropped
\* differs from the oldest it keeps.
C27_Witness ==
    \E a \in Agents :
        /\ Len(log[a]) = 6 /\ Len(requests[a]) = 5
        /\ Handled(a, 1) # Handled(a, 2)
        /\ requests[a][1] = Handled(a, 2) /\ requests[a][5] = Handled(a, 6)

\* ---------------------------------------------------------------- C28

\* What follows the first c in s; empty when s holds no c.
After(s, c) ==
    IF \E i \in 1..Len(s) : s[i] = c
    THEN SubSeq(s, (CHOOSE i \in 1..Len(s) : s[i] = c /\ \A j \in 1..(i - 1) : s[j] # c) + 1,
                Len(s))
    ELSE <<>>

\* A response holds a space; its second space-separated token.
Spaced(s) == \E i \in 1..Len(s) : s[i] = " "
SecondToken(s) == Before(After(s, " "), " ")

\* The count an agent keeps for a code, 0 for a code it has no counter of, and the
\* sum of its counters.
CountOf(a, code) == IF code \in DOMAIN stats[a] THEN stats[a][code] ELSE 0
RECURSIVE SumOver(_, _)
SumOver(f, keys) ==
    IF keys = {} THEN 0
    ELSE LET k == CHOOSE x \in keys : TRUE IN f[k] + SumOver(f, keys \ {k})
SumOf(a) == SumOver(stats[a], DOMAIN stats[a])

\* The codes of the responses the model's exposed service and fallback produce.
Codes == {<<"200">>, <<"503">>, <<"HTTP/1.0">>, <<>>}

\* C28: status-code counters.  The counter of a code is the number of handled
\* envelopes whose response holds a space and has that code as its second
\* space-separated token ("503" for the fallback body); so the sum of the counters
\* never exceeds the number of handled envelopes.  A finished handling adds one to
\* the counter of its response's code and changes no other counter, and adds
\* nothing for a response without a space; no other step changes a counter, and no
\* counter ever decreases.
C28_StatusCounters ==
    /\ [](\A a \in Agents :
            /\ \A code \in Codes \cup DOMAIN stats[a] :
                  CountOf(a, code) =
                      Cardinality({i \in 1..Len(log[a]) :
                                      Spaced(log[a][i].result)
                                          /\ SecondToken(log[a][i].result) = code})
            /\ SumOf(a) <= Len(log[a])
            /\ \A i \in 1..Len(log[a]) :
                  ~log[a][i].dialled => SecondToken(log[a][i].result) = <<"503">>)
    /\ [][\A a \in Agents :
            /\ \A code \in DOMAIN stats[a] :
                  code \in DOMAIN stats'[a] /\ stats'[a][code] >= stats[a][code]
            /\ ~Finishing(a) => stats'[a] = stats[a]
            /\ Finishing(a) =>
                  LET result == Last(log'[a]).result
                  IN  IF Spaced(result)
                      THEN /\ stats'[a][SecondToken(result)] = CountOf(a, SecondToken(result)) + 1
                           /\ \A code \in DOMAIN stats'[a] \ {SecondToken(result)} :
                                  code \in DOMAIN stats[a] /\ stats'[a][code] = stats[a][code]
                      ELSE stats'[a] = stats[a]]_vars

\* An agent has handled three envelopes: the service answered two with 200, and
\* closed the third connection without a byte, which no counter counts.
C28_Witness ==
    \E a \in Agents :
        /\ Len(log[a]) = 3 /\ apc[a] = "idle"
        /\ DOMAIN stats[a] = {<<"200">>} /\ stats[a][<<"200">>] = 2
        /\ \E i \in 1..3 : log[a][i].result = <<>>

\* ---------------------------------------------------------------- C29

\* C29: agent statistics are protected.  While a refresh of the display is under
\* way, between its read of the counters and the end of its read of the recent
\* requests, the counters are as it read them: the broker callback has written
\* neither in the meantime.
C29_StatsProtected ==
    \A a \in Agents :
        tui[a].pc = "table" => tui[a].chart = stats[a]

\* ---------------------------------------------------------------- C30

\* Handler h reads its mailbox in this step: a pass of the wait loop, or the test
\* for the timeout after the unsubscribe.
Reads(h) ==
    \/ pc[h] = "poll" /\ <<pc[h], count[h]>>' # <<pc[h], count[h]>>
    \/ pc[h] = "check" /\ pc'[h] # "check"

\* C30: the pending response is serialised.  No handler reads its mailbox, in the
\* wait loop or in the timeout test, while its subscribe callback is under way
\* with a store to that mailbox.
C30_MailboxSerialised ==
    [][\A h \in Handlers : Reads(h) => cb.h # h]_vars

\* C31: an agent subscribes to clients/<name> only once it has a connection to the
\* broker, and it subscribes again for every connection established after a loss;
\* it never unsubscribes (only the loss of the connection ends a subscription);
\* it handles no payload before its first connection; its name is the one it was
\* given or, when none was given, a UUID, the same from the set-up of the client
\* on, and the broker client id is that name.
C31_SubscriptionLifecycle ==
    /\ [](\A a \in Agents :
            /\ ag[a].subs <= ag[a].conns
            /\ subscribed[a] => ag[a].up /\ ag[a].topic = NameTopic(a)
            /\ (ag[a].pc = "connected" /\ ag[a].up /\ ~subscribed[a]) => ENABLED OnConnect(a)
            /\ ag[a].conns = 0 =>
                  inbox[a] = <<>> /\ taken[a] = <<>> /\ log[a] = <<>> /\ ~logged[a]
            /\ ag[a].pc \in {"connect", "connected"} =>
                  /\ ag[a].name # <<>>
                  /\ ag[a].id = ag[a].name
                  /\ ag[a].name = (IF ag[a].given # <<>> THEN ag[a].given ELSE ag[a].name)
                  /\ ag[a].given = <<>> => ag[a].name \in Uuids)
    /\ [][\A a \in Agents :
            /\ (subscribed[a] /\ ~subscribed'[a]) => (ag[a].up /\ ~ag'[a].up)
            /\ ag[a].pc # "start" => ag'[a].name = ag[a].name /\ ag'[a].id = ag[a].id]_vars

\* C31 witness: an agent started without a name, subscribed on its second
\* connection after two OnConnect calls, has taken a payload.
C31_Witness ==
    \E a \in Agents :
        /\ ag[a].given = <<>>
        /\ ag[a].name \in Uuids
        /\ ag[a].conns = 2
        /\ ag[a].subs = 2
        /\ subscribed[a]
        /\ taken[a] # <<>>

\* ---------------------------------------------------------------- C32

\* C32: the roles of the messages never collide.  Every payload a gateway handler
\* has published is a JSON object and does not begin with the marker; every payload
\* an agent has published begins with it; an agent that takes a payload beginning
\* with the marker (its own publication, or any other response) goes on to no
\* fetch and publishes nothing; and the gateway's callback, called with a payload
\* that does not begin with the marker (an envelope), changes no mailbox.
C32_RolesApart ==
    /\ [](\A h \in Handlers :
            npub[h] > 0 => IsObject(toSend[h]) /\ ~Marked(toSend[h]))
    /\ [](\A a \in Agents : \A i \in 1..Len(log[a]) : Marked(log[a][i].payload))
    /\ [][\A a \in Agents :
            (Taking(a) /\ Marked(Next1(a))) =>
                apc'[a] = "idle" /\ taken'[a] = taken[a] /\ log'[a] = log[a]]_vars
    /\ [][(gwInbox # <<>> /\ gwInbox' = Tail(gwInbox) /\ ~Marked(Head(gwInbox).payload)) =>
                response' = response /\ from' = from]_vars

\* C32 witness: an agent has published a response, which waits in its own inbox,
\* while an envelope one handler published waits for the callback of another.
C32_Witness ==
    /\ gwInbox # <<>>
    /\ IsObject(Head(gwInbox).payload)
    /\ route[Head(gwInbox).topic] # None
    /\ \E a \in Agents :
          /\ log[a] # <<>>
          /\ inbox[a] # <<>>
          /\ Head(inbox[a]).payload = log[a][1].payload

\* ---------------------------------------------------------------- C33

\* Nothing is on its way: no message waits at the gateway or at an agent, no
\* handler is about to publish and no agent is handling an envelope.
Quiet ==
    /\ gwInbox = <<>>
    /\ \A a \in Agents : inbox[a] = <<>> /\ apc[a] = "idle"
    /\ \A h \in Handlers : pc[h] # "publish"

\* C33: no feedback loop.  An agent has published no more messages than payloads
\* without the marker that decode as JSON have been delivered to it and taken, the
\* i-th publication being for the i-th of them; and when the agent's callbacks
\* and the gateway's goroutines are scheduled fairly and no fetch waits for ever,
\* the system comes to rest: from some state on no message is on its way, no
\* handler is about to publish and no agent is handling an envelope.
C33_NoFeedbackLoop ==
    /\ [](\A a \in Agents :
            /\ Len(log[a]) <= Len(taken[a])
            /\ \A i \in 1..Len(taken[a]) :
                  ~Marked(taken[a][i].payload) /\ IsObject(taken[a][i].payload)
            /\ \A i \in 1..Len(log[a]) : log[a][i].re = taken[a][i].re)
    /\ \/ <>[]Quiet
       \/ <>(\E a \in Agents : apc[a] = "hung")

\* C33 witness: the request has been served with the agent's reply, the one message
\* the agent has published, and the system is at rest: the agent has taken its own
\* reply and published nothing for it.
C33_Witness ==
    /\ Quiet
    /\ \E h \in Handlers : Served(h) /\ Replied(h) /\ exit[h] = "reply"
    /\ \E a \in Agents : subscribed[a] /\ Len(log[a]) = 1 /\ Len(taken[a]) = 1

\* ---------------------------------------------------------------- C34

\* C34: handler termination.  When the gateway's goroutines are scheduled fairly,
\* every handler whose request has arrived returns in the end, whatever is or is
\* not published on its topic (nothing, a response late or in time, payloads that
\* are no response); and its wait loop sleeps at most 40 times.
C34_HandlerTermination ==
    /\ [](\A h \in Handlers : count[h] <= MaxPolls)
    /\ \A h \in Handlers : (pc[h] # "idle") ~> (pc[h] = "done")

\* C34 witness: a handler has returned after it has waited its loop out, while
\* payloads were published on its topic.
C34_Witness ==
    \E h \in Handlers :
        /\ Served(h)
        /\ exit[h] = "timeout"
        /\ injected > 0
        /\ sock[h] = Timeout503

\* ---------------------------------------------------------------- C35

\* C35: own response only.  In a run in which no request has arrived while another
\* was being handled, and nothing has failed, a mailbox holds nothing but the
\* response to its own handler's envelope (never the late response to an earlier
\* request that timed out), and a caller served an agent's response has received
\* the response to its own envelope.
C35_OwnResponse ==
    upsets = 0 =>
        \A h \in Handlers :
            /\ from[h] \in {None, h}
            /\ (Served(h) /\ exit[h] = "reply") =>
                  answer[h].by # None /\ sock[h] = AfterMarker(answer[h].payload)

\* ---------------------------------------------------------------- C36

\* C36: empty response.  A response that is the marker alone leaves the mailbox
\* empty; a handler whose envelope was answered with the marker alone, and whose
\* mailbox took the response to no other envelope after it, serves its caller the
\* 503 timeout body; and no handler writes a response of no bytes to its caller.
C36_EmptyResponse ==
    /\ [][(cb # NoCallback /\ cb' = NoCallback /\ cb.payload = Marker) =>
              response'[cb.h] = <<>>]_vars
    /\ [](\A h \in Handlers :
            /\ (Served(h) /\ answer[h].payload = Marker /\ from[h] \in {None, h}) =>
                  sock[h] = Timeout503
            /\ pc[h] = "flush" => bufrw[h] # <<>>
            /\ Served(h) => sock[h] # <<>>)

\* ---------------------------------------------------------------- C37

\* C37: independence of labels.  When requests for two distinct labels are handled
\* at the same time, a step of the one handler that subscribes, unsubscribes or
\* changes its mailbox leaves the routes the other handler holds and the other's
\* mailbox as they were; and the response a caller is served from the wait is one
\* that an agent of its own label published for its own envelope.
C37_LabelsApart ==
    /\ [][\A h \in Handlers : \A g \in Handlers \ {h} :
            (/\ InFlight(h) /\ InFlight(g)
             /\ LabelOf(h) # LabelOf(g)
             /\ \/ pc[h] \in {"subscribe", "unsub"} /\ pc'[h] # pc[h]
                \/ response'[h] # response[h]
                \/ from'[h] # from[h]) =>
                /\ \A t \in DOMAIN route : (route'[t] = g) = (route[t] = g)
                /\ response'[g] = response[g]
                /\ from'[g] = from[g]]_vars
    /\ [](\A h \in Handlers :
            (Alone(h) /\ Served(h) /\ exit[h] = "reply") =>
                /\ from[h] = h
                /\ answer[h].by # None
                /\ found[h].from = h
                /\ \A a \in Agents : answer[h].by = a => NameTopic(a) = TopicOf(h))

\* C37 witness: the handler of a request for label a has its agent's response and
\* is about to unsubscribe while the handler of a request for label b waits,
\* subscribed.
C37_Witness ==
    \E h \in Handlers : \E g \in Handlers \ {h} :
        /\ LabelOf(h) = <<"a">> /\ LabelOf(g) = <<"b">>
        /\ pc[h] = "unsub" /\ exit[h] = "reply" /\ from[h] = h
        /\ pc[g] = "poll" /\ count[g] > 0 /\ route[TopicOf(g)] = g

\* ---------------------------------------------------------------- C38

\* The complete responses the agents have published.
AgentResponses ==
    UNION {{AfterMarker(log[a][i].payload) : i \in 1..Len(log[a])} : a \in Agents}

\* C38: exactly one outcome per caller.  A handler that has returned has either
\* answered one error through the ResponseWriter (serialisation, subscribe or
\* hijack failure) and sent nothing else, or has sent on the hijacked connection,
\* closed after, exactly a complete response of an agent or exactly the 503
\* timeout body; and what a caller has been sent is never changed or added to.
C38_OneOutcome ==
    /\ [](\A h \in Handlers :
            pc[h] = "done" =>
                \/ /\ wcode[h] \in {"dump", "subscribe", "500"}
                   /\ sock[h] = <<>> /\ bufrw[h] = <<>> /\ conn[h] = "none"
                \/ /\ wcode[h] = "none"
                   /\ conn[h] = "closed" /\ bufrw[h] = <<>>
                   /\ \/ sock[h] = Timeout503
                      \/ sock[h] # <<>> /\ sock[h] \in AgentResponses)
    /\ [][\A h \in Handlers :
            /\ wcode[h] # "none" => wcode'[h] = wcode[h] /\ sock'[h] = <<>>
            /\ (sock[h] # <<>> \/ pc[h] = "done") => sock'[h] = sock[h]
            /\ bufrw[h] # <<>> => bufrw'[h] \in {bufrw[h], <<>>}]_vars

\* ---------------------------------------------------------------- C39

\* Handler h is between its subscribe and its unsubscribe.
Waiting(h) == pc[h] \in {"poll", "unsub"}

====
